---- MODULE Spec2Model ----
(***************************************************************************)
(* Transport stage of audio-ninja: the receive-side jitter buffer          *)
(* (crates/core/src/jitter.rs), the XOR forward error correction codec,    *)
(* its loss statistics and receiver (crates/core/src/fec.rs), the latency  *)
(* compensator and multi-speaker scheduler (crates/core/src/latency.rs)    *)
(* and the RTP wire format (crates/core/src/transport.rs); the UDP sender, *)
(* broadcaster and receiver (crates/core/src/network.rs), the clocks       *)
(* (crates/core/src/sync.rs), loss concealment (crates/core/src/fec.rs),   *)
(* channel mapping (src/iamf.rs) and the limiter                           *)
(* (crates/core/src/loudness.rs).                                          *)
(***************************************************************************)
EXTENDS Integers, Sequences, FiniteSets, TLC

VARIABLES
    \* JitterBuffer (jitter.rs:31-38)
    config,            \* JitterBufferConfig: target_delay (ms), max_packets
    buffer,            \* BTreeMap<u16, RtpPacket>: sequence -> payload
    last_popped,       \* Option<u16>
    packets_received,
    packets_dropped,
    packets_late,
    jret,              \* the last JitterBuffer call and what it returned
    prebuffered,       \* history: ready() has held at some point since construction
    underrun_seen,     \* history: some pop has returned Underrun
    \* XorFec (fec.rs:22-26)
    group_size,
    current_group,     \* Vec<Vec<u8>>
    group_index,
    eret,              \* the last encode call: its packet and what it returned
    \* one decode call (fec.rs:74): the group sent, the packets lost on the way
    sent,
    lost,
    dret,              \* what decode returned
    \* LossStatistics (fec.rs:95-103), alone or as FecReceiver::stats
    stats,
    seen,              \* history: the sequence numbers passed to update, in order
    \* FecReceiver (fec.rs:215-221); its XorFec is group_size
    group_cache,       \* HashMap<usize, Vec<Vec<u8>>>
    fec_cache,         \* HashMap<usize, Vec<u8>>
    got,               \* history: the sequence numbers of the data packets processed
    recoveries,        \* history: group id -> recoveries recorded for it
    \* LatencyCompensator (latency.rs:22-25), alone or as MultiSpeakerSync::compensator
    speaker_latencies, \* HashMap<String, SpeakerLatency>
    max_latency,       \* Duration, in ms
    cret,              \* the last delay_for_speaker call and what it returned
    \* MultiSpeakerSync (latency.rs:135-138)
    buffers,           \* HashMap<String, SpeakerBuffer>
    sret,              \* the last scheduler call and what it returned
    last_out,          \* history: speaker id -> the block its queue emitted last, and when
    \* one RtpPacket on its way (transport.rs:141-145)
    rtp_packet,        \* the packet the sender built
    wire,              \* its serialized bytes
    rret,              \* the last deserialize call: its buffer and what it returned
    \* UdpRtpSender (network.rs:26-33)
    sender,            \* ssrc, sequence, timestamp, fec
    emitted,           \* history: the datagrams handed to the socket, in order
    since_fec,         \* history: data packets sent since enable_fec
    nret,              \* the last sender call and what it did
    \* SpeakerDiscovery and MultiSpeakerSender (network.rs:172-175, 223-226)
    speakers,          \* the ids registered with the discovery, in order
    senders,           \* Vec<UdpRtpSender>
    bret,              \* the last call and what it did
    \* UdpRtpReceiver (network.rs:90-94); its LossStatistics is stats
    uret,              \* the last recv_packet call and what it returned
    \* one clock (sync.rs:29-33, 88-92, 153-155) and the host clock it reads
    clock,             \* kind, offset, last_sync
    host,
    reading,           \* the last now() reading
    kret,              \* the last clock call
    \* LossConcealer (fec.rs:167-170)
    strategy,
    last_block,        \* Option<AudioBlock>
    conceal_out,       \* the last conceal call: what was asked for, what came back
    \* one call of map_channel_element_to_layout (iamf.rs:198-222)
    map_in,            \* channel labels, audio, roles of the layout speakers
    map_out,
    \* HeadroomManager (loudness.rs:125-138)
    limiter,           \* threshold, lookahead_samples, limiter_gain
    lim_out,           \* the last apply_limiting call: its block, the samples emitted
    lim_calls,         \* history: apply_limiting calls so far
    \* the network between a UdpRtpSender and a UdpRtpReceiver
    delivered,         \* how many of the datagrams emitted have been received
    \* ReferenceRenderer (render.rs:65-72)
    renderer,          \* which of drc, loudness_normalizer, binaural_renderer,
                       \* current_binaural_position are Some
    render_out,        \* the last render call: its options, the stages it ran
    \* EngineState behind the REST API, one request at a time (engine.rs:90-105)
    engine,            \* speakers, layout, transport_state, speaker_stats
    aret,              \* the last request and its response
    \* AppState with requests handled concurrently (lib.rs:15-18)
    lock,              \* the RwLock: its writer and its readers
    shared,            \* the EngineState behind the lock: layout, transport_state
    reqs,              \* every request: its handler, where it stands, its locals
    last_transport     \* history: the transport command that took the lock last

jvars == <<config, buffer, last_popped, packets_received, packets_dropped,
           packets_late, jret, prebuffered, underrun_seen>>

fvars == <<group_size, current_group, group_index, eret, sent, lost, dret>>

lvars == <<stats, seen>>

rvars == <<group_cache, fec_cache, got, recoveries>>

cvars == <<speaker_latencies, max_latency, cret>>

svars == <<buffers, sret, last_out>>

tvars == <<rtp_packet, wire, rret>>

nvars == <<sender, emitted, since_fec, nret>>

bvars == <<speakers, senders, bret>>

uvars == <<uret>>

kvars == <<clock, host, reading, kret>>

ovars == <<strategy, last_block, conceal_out>>

mvars == <<map_in, map_out>>

hvars == <<limiter, lim_out, lim_calls>>

wvars == <<delivered>>

gvars == <<renderer, render_out>>

evars == <<engine, aret>>

qvars == <<lock, shared, reqs, last_transport>>

vars == <<jvars, fvars, lvars, rvars, cvars, svars, tvars,
          nvars, bvars, uvars, kvars, ovars, mvars, hvars,
          wvars, gvars, evars, qvars>>

\* what the operations of a lone LossStatistics leave alone
lframe == <<jvars, fvars, rvars, cvars, svars, tvars,
           nvars, bvars, uvars, kvars, ovars, mvars, hvars,
           wvars, gvars, evars, qvars>>

\* what the operations of a JitterBuffer leave alone
jframe == <<fvars, lvars, rvars, cvars, svars, tvars,
           nvars, bvars, uvars, kvars, ovars, mvars, hvars,
           wvars, gvars, evars, qvars>>

\* what the operations of a sender's or a lone XorFec leave alone
fframe == <<jvars, lvars, rvars, cvars, svars, tvars,
           nvars, bvars, uvars, kvars, ovars, mvars, hvars,
           wvars, gvars, evars, qvars>>

\* what the operations of a FecReceiver leave alone
rframe == <<jvars, fvars, cvars, svars, tvars,
           nvars, bvars, uvars, kvars, ovars, mvars, hvars,
           wvars, gvars, evars, qvars>>

\* what the operations of a lone LatencyCompensator leave alone
cframe == <<jvars, fvars, lvars, rvars, svars, tvars,
           nvars, bvars, uvars, kvars, ovars, mvars, hvars,
           wvars, gvars, evars, qvars>>

\* what the operations of a MultiSpeakerSync leave alone
sframe == <<jvars, fvars, lvars, rvars, tvars,
           nvars, bvars, uvars, kvars, ovars, mvars, hvars,
           wvars, gvars, evars, qvars>>

\* what serializing and deserializing a packet leave alone
tframe == <<jvars, fvars, lvars, rvars, cvars, svars,
           nvars, bvars, uvars, kvars, ovars, mvars, hvars,
           wvars, gvars, evars, qvars>>

\* what the operations of a UdpRtpSender leave alone
nframe == <<jvars, fvars, lvars, rvars, cvars, svars, tvars,
           bvars, uvars, kvars, ovars, mvars, hvars,
           wvars, gvars, evars, qvars>>

\* what the operations of a SpeakerDiscovery and a MultiSpeakerSender leave alone
bframe == <<jvars, fvars, lvars, rvars, cvars, svars, tvars,
           nvars, uvars, kvars, ovars, mvars, hvars,
           wvars, gvars, evars, qvars>>

\* what the operations of a UdpRtpReceiver leave alone
uframe == <<jvars, fvars, rvars, cvars, svars, tvars,
           nvars, bvars, kvars, ovars, mvars, hvars,
           wvars, gvars, evars, qvars>>

\* what the operations of a clock leave alone
kframe == <<jvars, fvars, lvars, rvars, cvars, svars, tvars,
           nvars, bvars, uvars, ovars, mvars, hvars,
           wvars, gvars, evars, qvars>>

\* what the operations of a LossConcealer leave alone
oframe == <<jvars, fvars, lvars, rvars, cvars, svars, tvars,
           nvars, bvars, uvars, kvars, mvars, hvars,
           wvars, gvars, evars, qvars>>

\* what map_channel_element_to_layout leaves alone
mframe == <<jvars, fvars, lvars, rvars, cvars, svars, tvars,
           nvars, bvars, uvars, kvars, ovars, hvars,
           wvars, gvars, evars, qvars>>

\* what the operations of a HeadroomManager leave alone
hframe == <<jvars, fvars, lvars, rvars, cvars, svars, tvars,
           nvars, bvars, uvars, kvars, ovars, mvars,
           wvars, gvars, evars, qvars>>

\* what the delivery of a datagram to the receiver leaves alone
wframe == <<jvars, fvars, rvars, cvars, svars, tvars,
           nvars, bvars, kvars, ovars, mvars, hvars,
           gvars, evars, qvars>>

\* what the operations of a ReferenceRenderer leave alone
gframe == <<jvars, fvars, lvars, rvars, cvars, svars, tvars,
           nvars, bvars, uvars, kvars, ovars, mvars, hvars,
           wvars, evars, qvars>>

\* what the requests handled one at a time leave alone
eframe == <<jvars, fvars, lvars, rvars, cvars, svars, tvars,
           nvars, bvars, uvars, kvars, ovars, mvars, hvars,
           wvars, gvars, qvars>>

\* what the requests handled concurrently leave alone
qframe == <<jvars, fvars, lvars, rvars, cvars, svars, tvars,
           nvars, bvars, uvars, kvars, ovars, mvars, hvars,
           wvars, gvars, evars>>

----------------------------------------------------------------------------
(* Bounds of the model *)

\* largest max_packets a buffer is configured with
MaxPackets == 4
\* pushes offered to one buffer
MaxReceived == 5

\* largest FEC group size
MaxGroupSize == 3
\* longest packet handed to the FEC codec, in bytes
MaxLen == 2
\* parity packets one encoder emits
MaxGroups == 2

\* calls of LossStatistics::update on one stream
MaxUpdates == 4
\* recoveries recorded in one LossStatistics
MaxRecoveries == 2
\* data packets one FecReceiver processes
MaxRcvPackets == 3

\* blocks waiting in one speaker's queue
MaxQueue == 2

\* datagrams one UdpRtpSender has sent before its last send_block
MaxDatagrams == 5
\* speakers registered with one discovery, senders of one MultiSpeakerSender
MaxSpeakers == 3
\* broadcast_block calls on one MultiSpeakerSender
MaxBroadcasts == 2

\* latest host time, in ms
MaxHost == 30
\* offset beyond which a clock is synced no more, in ms
MaxOffset == 40

\* apply_limiting calls on one HeadroomManager
MaxBlocks == 2

(* Program constants *)

\* sequence numbers are u16
U16 == 65536
\* half of the sequence space, the "too old" window
HalfWindow == 32768
\* packet duration ready() assumes, in ms
PacketMs == 20
\* least number of packets ready() asks for
MinReadyPackets == 3
\* Option::None of last_popped
NoSeq == -1
\* bytes of a serialized RtpHeader
HeaderLen == 12

\* sequence numbers offered to the buffer: both ends of the u16 range and the
\* half-window boundary
SeqVals == {0, 1, 32768, 65534, 65535}
\* payloads that tell two packets of one sequence number apart
Payloads == {0, 1}
\* target_delay values, in ms (50 is the default)
TargetDelays == {50, 70, 80}

----------------------------------------------------------------------------
(* JitterBuffer *)

BufLen == Cardinality(DOMAIN buffer)

EmptyMap == [s \in {} |-> 0]

\* u16::wrapping_sub
WrappingSub(a, b) == (a - b + U16) % U16

\* jitter.rs:58-65
IsTooOld(seq) ==
    /\ last_popped # NoSeq
    /\ WrappingSub(seq, last_popped) > HalfWindow

\* mutant of IsFull: the capacity test off by one
IsFullOffByOne == BufLen > config.max_packets

\* jitter.rs:68
IsFull == BufLen >= config.max_packets

\* mutant of PushResult: the capacity test made before the age test
PushResultFullFirst(seq) ==
    IF IsFull THEN "Full"
    ELSE IF IsTooOld(seq) THEN "TooOld"
    ELSE "Ok"

\* the Result of push, jitter.rs:57-74
PushResult(seq) ==
    IF IsTooOld(seq) THEN "TooOld"
    ELSE IF IsFull THEN "Full"
    ELSE "Ok"

\* BTreeMap::insert
Insert(map, k, v) == [s \in (DOMAIN map) \cup {k} |-> IF s = k THEN v ELSE map[s]]

\* BTreeMap::remove
Remove(map, k) == [s \in (DOMAIN map) \ {k} |-> map[s]]

\* mutant of Oldest: the entry with the largest key
OldestFromBack(map) == CHOOSE s \in DOMAIN map : \A t \in DOMAIN map : s >= t

\* self.buffer.iter().next(): the entry with the smallest key
Oldest(map) == CHOOSE s \in DOMAIN map : \A t \in DOMAIN map : s <= t

\* ready() as a function of the buffer, jitter.rs:90-98
TargetPackets == config.target_delay \div PacketMs

\* mutant of ReadyOf: the floor of MinReadyPackets left out
ReadyOfNoFloor(map) ==
    IF DOMAIN map = {} THEN FALSE
    ELSE Cardinality(DOMAIN map) >= TargetPackets

ReadyOf(map) ==
    IF DOMAIN map = {} THEN FALSE
    ELSE Cardinality(DOMAIN map) >=
           (IF TargetPackets > MinReadyPackets THEN TargetPackets ELSE MinReadyPackets)

\* JitterBuffer::default(), untouched
JitterIdle ==
    /\ config = [target_delay |-> 50, max_packets |-> 100]
    /\ buffer = EmptyMap
    /\ last_popped = NoSeq
    /\ packets_received = 0
    /\ packets_dropped = 0
    /\ packets_late = 0
    /\ jret = [op |-> "new", res |-> "Ok", seq |-> NoSeq]
    /\ prebuffered = FALSE
    /\ underrun_seen = FALSE

JitterInit ==
    /\ config \in [target_delay : TargetDelays, max_packets : {2, MaxPackets}]
    /\ buffer = EmptyMap
    /\ last_popped = NoSeq
    /\ packets_received = 0
    /\ packets_dropped = 0
    /\ packets_late = 0
    /\ jret = [op |-> "new", res |-> "Ok", seq |-> NoSeq]
    /\ prebuffered = FALSE
    /\ underrun_seen = FALSE

Push(seq, payload) ==
    /\ packets_received < MaxReceived
    /\ packets_received' = packets_received + 1
    /\ LET res == PushResult(seq) IN
         /\ packets_late' = IF res = "TooOld" THEN packets_late + 1 ELSE packets_late
         /\ packets_dropped' = IF res = "Full" THEN packets_dropped + 1 ELSE packets_dropped
         /\ buffer' = IF res = "Ok" THEN Insert(buffer, seq, payload) ELSE buffer
         /\ jret' = [op |-> "push", res |-> res, seq |-> seq]
    /\ prebuffered' = (prebuffered \/ ReadyOf(buffer'))
    /\ UNCHANGED <<config, last_popped, underrun_seen>>
    /\ UNCHANGED jframe

\* mutant of Pop: an underrun treated as the start of a new stream
PopUnderrunRestarts ==
    /\ IF DOMAIN buffer = {}
       THEN /\ jret' = [op |-> "pop", res |-> "Underrun", seq |-> NoSeq]
            /\ underrun_seen' = TRUE
            /\ last_popped' = NoSeq
            /\ UNCHANGED buffer
       ELSE LET seq == Oldest(buffer) IN
            /\ buffer' = Remove(buffer, seq)
            /\ last_popped' = seq
            /\ jret' = [op |-> "pop", res |-> "Ok", seq |-> seq]
            /\ UNCHANGED underrun_seen
    /\ UNCHANGED <<config, packets_received, packets_dropped, packets_late, prebuffered>>
    /\ UNCHANGED jframe

\* jitter.rs:77-88
Pop ==
    /\ IF DOMAIN buffer = {}
       THEN /\ jret' = [op |-> "pop", res |-> "Underrun", seq |-> NoSeq]
            /\ underrun_seen' = TRUE
            /\ UNCHANGED <<buffer, last_popped>>
       ELSE LET seq == Oldest(buffer) IN
            /\ buffer' = Remove(buffer, seq)
            /\ last_popped' = seq
            /\ jret' = [op |-> "pop", res |-> "Ok", seq |-> seq]
            /\ UNCHANGED underrun_seen
    /\ UNCHANGED <<config, packets_received, packets_dropped, packets_late, prebuffered>>
    /\ UNCHANGED jframe

Ready ==
    /\ jret' = [op |-> "ready", res |-> ReadyOf(buffer), seq |-> NoSeq]
    /\ UNCHANGED <<config, buffer, last_popped, packets_received, packets_dropped,
                   packets_late, prebuffered, underrun_seen>>
    /\ UNCHANGED jframe

Reset ==
    /\ buffer' = EmptyMap
    /\ last_popped' = NoSeq
    /\ jret' = [op |-> "reset", res |-> "Ok", seq |-> NoSeq]
    /\ UNCHANGED <<config, packets_received, packets_dropped, packets_late,
                   prebuffered, underrun_seen>>
    /\ UNCHANGED jframe

JitterNext ==
    \/ \E seq \in SeqVals, payload \in Payloads : Push(seq, payload)
    \/ Pop
    \/ Ready
    \/ Reset

----------------------------------------------------------------------------
(* XorFec *)

\* byte values packets are made of
ByteVals == {0, 255}

\* group sizes an XorFec is built with
GroupSizes == 1..MaxGroupSize

SeqsUpTo(S, n) == UNION {[1..m -> S] : m \in 0..n}

Packets == SeqsUpTo(ByteVals, MaxLen)

\* u8 ^ u8
RECURSIVE Xor(_, _)
Xor(a, b) ==
    IF a = 0 /\ b = 0 THEN 0
    ELSE (((a % 2) + (b % 2)) % 2) + 2 * Xor(a \div 2, b \div 2)

\* .map(|p| p.len()).max().unwrap_or(0), fec.rs:56-61
RECURSIVE MaxPacketLen(_)
MaxPacketLen(group) ==
    IF group = <<>> THEN 0
    ELSE LET rest == MaxPacketLen(Tail(group)) IN
         IF Len(Head(group)) > rest THEN Len(Head(group)) ELSE rest

\* fec[i] ^= byte for every byte of one packet, fec.rs:65-67
XorPacketInto(fec, packet) ==
    [i \in 1..Len(fec) |-> IF i <= Len(packet) THEN Xor(fec[i], packet[i]) ELSE fec[i]]

\* the loop over the packets of the group, fec.rs:64-68
RECURSIVE XorGroupInto(_, _)
XorGroupInto(fec, group) ==
    IF group = <<>> THEN fec
    ELSE XorGroupInto(XorPacketInto(fec, Head(group)), Tail(group))

\* generate_fec, fec.rs:51-71
GenerateFec(group) ==
    IF group = <<>> THEN <<>>
    ELSE XorGroupInto([i \in 1..MaxPacketLen(group) |-> 0], group)

\* mutant of GroupComplete: the group closed one packet late
GroupCompleteLate(group) == Len(group) > group_size

\* the test that closes a group, fec.rs:41
GroupComplete(group) == Len(group) >= group_size

\* Option<Vec<u8>>
None == [some |-> FALSE, fec |-> <<>>]
Some(fec) == [some |-> TRUE, fec |-> fec]

\* XorFec::new(group_size), untouched
FecIdle ==
    /\ group_size = 1
    /\ current_group = <<>>
    /\ group_index = 0
    /\ eret = [op |-> "new", packet |-> <<>>, res |-> None]
    /\ sent = <<>>
    /\ lost = {}
    /\ dret = [op |-> "new", ok |-> TRUE, bytes |-> <<>>]

\* XorFec::new(group_size) of the sender
EncodeInit ==
    /\ group_size \in GroupSizes
    /\ current_group = <<>>
    /\ group_index = 0
    /\ eret = [op |-> "new", packet |-> <<>>, res |-> None]
    /\ sent = <<>>
    /\ lost = {}
    /\ dret = [op |-> "new", ok |-> TRUE, bytes |-> <<>>]

\* fec.rs:38-49
Encode(packet) ==
    /\ group_index < MaxGroups
    /\ LET group == Append(current_group, packet) IN
         IF GroupComplete(group)
         THEN /\ eret' = [op |-> "encode", packet |-> packet, res |-> Some(GenerateFec(group))]
              /\ current_group' = <<>>
              /\ group_index' = group_index + 1
         ELSE /\ eret' = [op |-> "encode", packet |-> packet, res |-> None]
              /\ current_group' = group
              /\ UNCHANGED group_index
    /\ UNCHANGED <<group_size, sent, lost, dret>>
    /\ UNCHANGED fframe

EncodeNext == \E packet \in Packets : Encode(packet)

\* mutant of InsufficientData: one more missing packet let through
InsufficientDataOffByOne(packets) == Len(packets) + 2 < group_size

\* the test for too few packets, fec.rs:75
InsufficientData(packets) == Len(packets) + 1 < group_size

\* recovered[i] ^= byte where i < recovered.len(), fec.rs:82-86
XorPacketWithin(recovered, packet) ==
    [i \in 1..Len(recovered) |->
        IF i <= Len(packet) THEN Xor(recovered[i], packet[i]) ELSE recovered[i]]

\* the loop over the available packets, fec.rs:81-87
RECURSIVE Recover(_, _)
Recover(recovered, packets) ==
    IF packets = <<>> THEN recovered
    ELSE Recover(XorPacketWithin(recovered, Head(packets)), Tail(packets))

\* XorFec::decode, fec.rs:74-90
DecodeResult(packets, fec) ==
    IF InsufficientData(packets)
    THEN [op |-> "decode", ok |-> FALSE, bytes |-> <<>>]
    ELSE [op |-> "decode", ok |-> TRUE, bytes |-> Recover(fec, packets)]

\* the packets of a group that arrive, in the order sent
RECURSIVE Arrived(_, _, _)
Arrived(group, missing, i) ==
    IF i > Len(group) THEN <<>>
    ELSE IF i \in missing THEN Arrived(group, missing, i + 1)
    ELSE <<group[i]>> \o Arrived(group, missing, i + 1)

\* a receiver's XorFec::new(group_size), and one group of group_size packets
\* of which those numbered in lost do not arrive
DecodeInit ==
    /\ group_size \in GroupSizes
    /\ current_group = <<>>
    /\ group_index = 0
    /\ eret = [op |-> "new", packet |-> <<>>, res |-> None]
    /\ sent \in [1..group_size -> Packets]
    /\ lost \in SUBSET (1..group_size)
    /\ dret = [op |-> "new", ok |-> TRUE, bytes |-> <<>>]

\* decode called with the packets that arrived and the parity of the group
Decode ==
    /\ dret.op = "new"
    /\ dret' = DecodeResult(Arrived(sent, lost, 1), GenerateFec(sent))
    /\ UNCHANGED <<group_size, current_group, group_index, eret, sent, lost>>
    /\ UNCHANGED fframe

----------------------------------------------------------------------------
(* LossStatistics *)

\* sequence numbers passed to update: around the 65535 -> 0 wrap
LossSeqVals == {0, 1, 2, 3, 4, 65534, 65535}

\* LossStatistics::default()
NewStats ==
    [total_expected |-> 0, total_received |-> 0, total_lost |-> 0,
     total_recovered |-> 0, consecutive_losses |-> 0,
     max_consecutive_losses |-> 0, last_sequence |-> NoSeq]

\* u16::wrapping_add
WrappingAdd(a, b) == (a + b) % U16

\* u64::max
Max2(a, b) == IF a >= b THEN a ELSE b

\* mutant of GapOf: the distance taken without wraparound
GapOfAbs(last, sequence) ==
    IF sequence >= last + 1 THEN sequence - (last + 1) ELSE (last + 1) - sequence

\* the gap between the sequence number expected next and the one seen,
\* fec.rs:112-113
GapOf(last, sequence) == WrappingSub(sequence, WrappingAdd(last, 1))

\* mutant of UpdateStats: the packet at hand left out of total_expected
UpdateStatsGapOnly(s, sequence) ==
    IF s.last_sequence # NoSeq
    THEN LET gap == GapOf(s.last_sequence, sequence) IN
         [s EXCEPT !.total_lost = IF gap > 0 THEN @ + gap ELSE @,
                   !.consecutive_losses = IF gap > 0 THEN @ + gap ELSE 0,
                   !.max_consecutive_losses =
                       IF gap > 0 THEN Max2(@, s.consecutive_losses + gap) ELSE @,
                   !.total_expected = @ + gap,
                   !.total_received = @ + 1,
                   !.last_sequence = sequence]
    ELSE [s EXCEPT !.total_expected = 1,
                   !.total_received = @ + 1,
                   !.last_sequence = sequence]

\* LossStatistics::update, fec.rs:110-132
UpdateStats(s, sequence) ==
    IF s.last_sequence # NoSeq
    THEN LET gap == GapOf(s.last_sequence, sequence) IN
         [s EXCEPT !.total_lost = IF gap > 0 THEN @ + gap ELSE @,
                   !.consecutive_losses = IF gap > 0 THEN @ + gap ELSE 0,
                   !.max_consecutive_losses =
                       IF gap > 0 THEN Max2(@, s.consecutive_losses + gap) ELSE @,
                   !.total_expected = @ + gap + 1,
                   !.total_received = @ + 1,
                   !.last_sequence = sequence]
    ELSE [s EXCEPT !.total_expected = 1,
                   !.total_received = @ + 1,
                   !.last_sequence = sequence]

\* LossStatistics::record_recovery, fec.rs:134-139
RecordRecoveryOf(s) ==
    [s EXCEPT !.total_recovered = @ + 1,
              !.consecutive_losses = IF @ > 0 THEN @ - 1 ELSE @]

\* LossStatistics::loss_rate, fec.rs:141-147: the quotient as numerator and
\* denominator
LossRateOf(s) ==
    IF s.total_expected = 0 THEN [num |-> 0, den |-> 1]
    ELSE [num |-> s.total_lost, den |-> s.total_expected]

\* LossStatistics::new()
LossIdle ==
    /\ stats = NewStats
    /\ seen = <<>>

Update(sequence) ==
    /\ Len(seen) < MaxUpdates
    /\ stats' = UpdateStats(stats, sequence)
    /\ seen' = Append(seen, sequence)
    /\ UNCHANGED lframe

RecordRecovery ==
    /\ stats.total_recovered < MaxRecoveries
    /\ stats' = RecordRecoveryOf(stats)
    /\ UNCHANGED seen
    /\ UNCHANGED lframe

LossNext ==
    \/ \E sequence \in LossSeqVals : Update(sequence)
    \/ RecordRecovery

----------------------------------------------------------------------------
(* FecReceiver *)

\* sequence numbers of the data packets a receiver is given
RcvSeqVals == {0, 1, 2, 3}
\* data packets and parities a receiver is given
RcvPackets == {<<0>>, <<255>>}
\* group ids parity packets are given for
RcvGroupIds == {0, 1}

\* group sizes a receiver is built with: at least two packets to a group
RcvGroupSizes == 2..MaxGroupSize

\* XorFec::new(group_size) of the receiver, fec.rs:226
ReceiverFecInit ==
    /\ group_size \in RcvGroupSizes
    /\ current_group = <<>>
    /\ group_index = 0
    /\ eret = [op |-> "new", packet |-> <<>>, res |-> None]
    /\ sent = <<>>
    /\ lost = {}
    /\ dret = [op |-> "new", ok |-> TRUE, bytes |-> <<>>]

\* FecReceiver::new: empty caches
ReceiverIdle ==
    /\ group_cache = EmptyMap
    /\ fec_cache = EmptyMap
    /\ got = {}
    /\ recoveries = [g \in RcvGroupIds |-> 0]

\* sequence as usize / self.fec.group_size, fec.rs:237
GroupIdOf(sequence) == sequence \div group_size

\* self.group_cache.entry(group_id).or_default().push(packet), fec.rs:238-241
CachePush(cache, g, packet) ==
    Insert(cache, g, Append(IF g \in DOMAIN cache THEN cache[g] ELSE <<>>, packet))

\* the test of try_recover, fec.rs:250-258: both caches hold the group, k-1
\* packets are cached and decode succeeds
CanRecover(gcache, fcache, g) ==
    /\ g \in DOMAIN gcache
    /\ g \in DOMAIN fcache
    /\ Len(gcache[g]) = group_size - 1
    /\ DecodeResult(gcache[g], fcache[g]).ok

\* fec.rs:234-242
ProcessPacket(sequence, packet) ==
    /\ Len(seen) < MaxRcvPackets
    /\ stats' = UpdateStats(stats, sequence)
    /\ seen' = Append(seen, sequence)
    /\ group_cache' = CachePush(group_cache, GroupIdOf(sequence), packet)
    /\ got' = got \cup {sequence}
    /\ UNCHANGED <<fec_cache, recoveries>>
    /\ UNCHANGED rframe

\* fec.rs:244-261, try_recover included
ProcessFecPacket(g, fec) ==
    /\ stats.total_recovered < MaxRecoveries
    /\ fec_cache' = Insert(fec_cache, g, fec)
    /\ IF CanRecover(group_cache, fec_cache', g)
       THEN /\ stats' = RecordRecoveryOf(stats)
            /\ recoveries' = [recoveries EXCEPT ![g] = @ + 1]
       ELSE UNCHANGED <<stats, recoveries>>
    /\ UNCHANGED <<group_cache, got, seen>>
    /\ UNCHANGED rframe

ReceiverNext ==
    \/ \E sequence \in RcvSeqVals, packet \in RcvPackets : ProcessPacket(sequence, packet)
    \/ \E g \in RcvGroupIds, fec \in RcvPackets : ProcessFecPacket(g, fec)

----------------------------------------------------------------------------
(* LatencyCompensator *)

\* speaker ids offered to a lone compensator
SpeakerIds == {"sp1", "sp2", "sp3"}
\* (network, processing, hardware) latencies in ms: totals 17, 28 and 7
LatencyParts == {<<10, 5, 2>>, <<20, 5, 3>>, <<5, 1, 1>>}

\* SpeakerLatency values, latency.rs:8-14
LatenciesOf(ids, parts) ==
    {[speaker_id |-> id, network_latency |-> p[1], processing_latency |-> p[2],
      hardware_latency |-> p[3]] : id \in ids, p \in parts}

\* SpeakerLatency::total, latency.rs:17-19
Total(latency) ==
    latency.network_latency + latency.processing_latency + latency.hardware_latency

\* Duration::saturating_sub
SaturatingSub(a, b) == IF a >= b THEN a - b ELSE 0

\* the value recalculate_max assigns, latency.rs:55-62
MaxTotal(latencies) ==
    IF DOMAIN latencies = {} THEN 0
    ELSE LET totals == {Total(latencies[id]) : id \in DOMAIN latencies} IN
         CHOOSE m \in totals : \A t \in totals : t <= m

\* the max_latency add_speaker leaves, latency.rs:36-39
AddSpeakerMax(max, latency) == IF Total(latency) > max THEN Total(latency) ELSE max

\* delay_for_speaker, latency.rs:64-68: <<>> is None, <<d>> is Some(d)
DelayForSpeakerOf(latencies, max, speaker_id) ==
    IF speaker_id \notin DOMAIN latencies THEN <<>>
    ELSE <<SaturatingSub(max, Total(latencies[speaker_id]))>>

\* LatencyCompensator::new, latency.rs:28-33
LatencyIdle ==
    /\ speaker_latencies = EmptyMap
    /\ max_latency = 0
    /\ cret = <<>>

\* add_speaker, latency.rs:35-42
AddSpeaker(latency) ==
    /\ max_latency' = AddSpeakerMax(max_latency, latency)
    /\ speaker_latencies' = Insert(speaker_latencies, latency.speaker_id, latency)
    /\ cret' = <<>>
    /\ UNCHANGED cframe

\* remove_speaker, latency.rs:44-47
RemoveSpeaker(speaker_id) ==
    /\ speaker_latencies' = Remove(speaker_latencies, speaker_id)
    /\ max_latency' = MaxTotal(speaker_latencies')
    /\ cret' = <<>>
    /\ UNCHANGED cframe

\* update_speaker, latency.rs:49-53
UpdateSpeaker(latency) ==
    /\ speaker_latencies' = Insert(speaker_latencies, latency.speaker_id, latency)
    /\ max_latency' = MaxTotal(speaker_latencies')
    /\ cret' = <<>>
    /\ UNCHANGED cframe

\* delay_for_speaker, latency.rs:64-68
DelayForSpeaker(speaker_id) ==
    /\ cret' = <<[speaker_id |-> speaker_id,
                  out |-> DelayForSpeakerOf(speaker_latencies, max_latency, speaker_id)]>>
    /\ UNCHANGED <<speaker_latencies, max_latency>>
    /\ UNCHANGED cframe

LatencyNext ==
    \/ \E latency \in LatenciesOf(SpeakerIds, LatencyParts) : AddSpeaker(latency)
    \/ \E speaker_id \in SpeakerIds : RemoveSpeaker(speaker_id)
    \/ \E latency \in LatenciesOf(SpeakerIds, LatencyParts) : UpdateSpeaker(latency)
    \/ \E speaker_id \in SpeakerIds : DelayForSpeaker(speaker_id)

----------------------------------------------------------------------------
(* SpeakerBuffer and MultiSpeakerSync *)
(* A block is known by its origin timestamp; timestamps, delays and the    *)
(* caller's clock are in ms.                                               *)

\* speakers of one scheduler
SyncIds == {"sp1", "sp2"}
\* their latencies: totals 17 and 28
SyncParts == {<<10, 5, 2>>, <<20, 5, 3>>}
\* origin timestamps of the blocks pushed
Timestamps == {0, 10}
\* the caller's clock at pop_ready: the timestamps, alone and 11 ms later
Nows == {0, 10, 11, 21}

\* SpeakerBuffer::new, latency.rs:99-105
NewSpeakerBuffer(speaker_id, delay) ==
    [speaker_id |-> speaker_id, delay |-> delay, buffer |-> <<>>]

\* SpeakerBuffer::push, latency.rs:107-109
PushOf(sb, timestamp) == [sb EXCEPT !.buffer = Append(@, timestamp)]

\* current_time >= target_time, latency.rs:116-119
HeadReady(sb, now) == now >= sb.buffer[1] + sb.delay

\* SpeakerBuffer::pop_ready, latency.rs:111-124: the block returned and the
\* buffer left
PopReadyOf(sb, now) ==
    IF sb.buffer = <<>> THEN [out |-> <<>>, sb |-> sb]
    ELSE IF HeadReady(sb, now)
         THEN [out |-> <<Head(sb.buffer)>>, sb |-> [sb EXCEPT !.buffer = Tail(@)]]
         ELSE [out |-> <<>>, sb |-> sb]

\* the record of a scheduler call
SyncCall(op, speaker_id, now, out) ==
    [op |-> op, speaker |-> speaker_id, now |-> now, out |-> out]

\* MultiSpeakerSync::new, latency.rs:141-146, before it is constructed
SyncIdle ==
    /\ buffers = EmptyMap
    /\ sret = <<>>
    /\ last_out = [id \in SyncIds |-> <<>>]

\* the compensator handed to MultiSpeakerSync::new: a new one, or one that
\* already knows a speaker (as in test_multi_speaker_sync)
SyncCompensatorInit ==
    /\ cret = <<>>
    /\ \/ speaker_latencies = EmptyMap /\ max_latency = 0
       \/ \E latency \in LatenciesOf(SyncIds, SyncParts) :
              /\ speaker_latencies = Insert(EmptyMap, latency.speaker_id, latency)
              /\ max_latency = AddSpeakerMax(0, latency)

\* MultiSpeakerSync::add_speaker, latency.rs:148-160
SyncAddSpeaker(speaker_id, latency) ==
    /\ max_latency' = AddSpeakerMax(max_latency, latency)
    /\ speaker_latencies' = Insert(speaker_latencies, latency.speaker_id, latency)
    /\ LET found == DelayForSpeakerOf(speaker_latencies', max_latency', speaker_id)
           delay == IF found = <<>> THEN 0 ELSE found[1]
       IN  buffers' = Insert(buffers, speaker_id, NewSpeakerBuffer(speaker_id, delay))
    /\ sret' = <<SyncCall("add_speaker", speaker_id, 0, <<>>)>>
    /\ last_out' = [last_out EXCEPT ![speaker_id] = <<>>]
    /\ UNCHANGED cret
    /\ UNCHANGED sframe

\* MultiSpeakerSync::push_block, latency.rs:162-174
SyncPushBlock(speaker_id, timestamp) ==
    /\ speaker_id \in DOMAIN buffers => Len(buffers[speaker_id].buffer) < MaxQueue
    /\ buffers' = IF speaker_id \in DOMAIN buffers
                  THEN [buffers EXCEPT ![speaker_id] = PushOf(@, timestamp)]
                  ELSE buffers
    /\ sret' = <<SyncCall("push_block", speaker_id, 0, <<>>)>>
    /\ UNCHANGED last_out
    /\ UNCHANGED cvars
    /\ UNCHANGED sframe

\* MultiSpeakerSync::pop_ready, latency.rs:176-178
SyncPopReady(speaker_id, now) ==
    /\ LET r == IF speaker_id \in DOMAIN buffers
                THEN PopReadyOf(buffers[speaker_id], now)
                ELSE [out |-> <<>>, sb |-> <<>>]
       IN  /\ buffers' = IF speaker_id \in DOMAIN buffers
                         THEN [buffers EXCEPT ![speaker_id] = r.sb]
                         ELSE buffers
           /\ sret' = <<SyncCall("pop_ready", speaker_id, now, r.out)>>
           /\ last_out' = IF r.out = <<>> THEN last_out
                          ELSE [last_out EXCEPT ![speaker_id] =
                                    <<[timestamp |-> r.out[1], now |-> now]>>]
    /\ UNCHANGED cvars
    /\ UNCHANGED sframe

SyncNext ==
    \/ \E speaker_id \in SyncIds, latency \in LatenciesOf(SyncIds, SyncParts) :
           SyncAddSpeaker(speaker_id, latency)
    \/ \E speaker_id \in SyncIds, timestamp \in Timestamps :
           SyncPushBlock(speaker_id, timestamp)
    \/ \E speaker_id \in SyncIds, now \in Nows : SyncPopReady(speaker_id, now)

----------------------------------------------------------------------------
(* RtpHeader and RtpPacket on the wire *)

RECURSIVE BitAnd(_, _)
\* & on unsigned integers
BitAnd(a, b) ==
    IF a = 0 \/ b = 0 THEN 0
    ELSE ((a % 2) * (b % 2)) + 2 * BitAnd(a \div 2, b \div 2)

RECURSIVE BitOr(_, _)
\* | on unsigned integers
BitOr(a, b) ==
    IF a = 0 /\ b = 0 THEN 0
    ELSE (IF (a % 2) + (b % 2) > 0 THEN 1 ELSE 0) + 2 * BitOr(a \div 2, b \div 2)

\* << on a u8: the bits shifted out are lost
Shl8(x, n) == (x * (2 ^ n)) % 256

\* >> on a u8
Shr8(x, n) == x \div (2 ^ n)

\* mutant of ToBeBytes: the least significant byte first
ToLeBytes(x, n) == [i \in 1..n |-> (x \div (256 ^ (i - 1))) % 256]

\* to_be_bytes of an n-byte unsigned integer
ToBeBytes(x, n) == [i \in 1..n |-> (x \div (256 ^ (n - i))) % 256]

RECURSIVE FromBeBytes(_)
\* from_be_bytes
FromBeBytes(bytes) ==
    IF bytes = <<>> THEN 0
    ELSE Head(bytes) * (256 ^ (Len(bytes) - 1)) + FromBeBytes(Tail(bytes))

\* header fields offered, those that fit their wire width and those that do not
Versions == {0, 2, 3, 5}
CsrcCounts == {0, 15, 16}
PayloadTypes == {0, 96, 127, 200}
\* u16 sequence numbers with two different bytes
RtpSequences == {0, 258, 65535}
\* u32 timestamps and ssrcs with four different bytes
RtpTimestamps == {0, 16909060}
Ssrcs == {1, 2018915346}
RtpPayloads == {<<>>, <<0>>, <<255, 1>>}
\* ClockTimestamp::now at construction and at reception
Clocks == {0, 1}
\* lengths a received buffer is cut to
CutLens == {0, 11, 12, 13}

\* RtpHeader, transport.rs:59-69
RtpHeaders ==
    [version : Versions, padding : BOOLEAN, extension : BOOLEAN,
     csrc_count : CsrcCounts, marker : BOOLEAN, payload_type : PayloadTypes,
     sequence : RtpSequences, timestamp : RtpTimestamps, ssrc : Ssrcs]

\* RtpHeader::new, transport.rs:72-84
NewHeader(sequence, timestamp, ssrc) ==
    [version |-> 2, padding |-> FALSE, extension |-> FALSE, csrc_count |-> 0,
     marker |-> FALSE, payload_type |-> 96, sequence |-> sequence,
     timestamp |-> timestamp, ssrc |-> ssrc]

\* RtpHeader::serialize, transport.rs:86-107
SerializeHeader(h) ==
    LET b0 == BitOr(Shl8(h.version, 6), BitAnd(h.csrc_count, 15))
        b0p == IF h.padding THEN BitOr(b0, 32) ELSE b0
        b0x == IF h.extension THEN BitOr(b0p, 16) ELSE b0p
        b1 == BitAnd(h.payload_type, 127)
        b1m == IF h.marker THEN BitOr(b1, 128) ELSE b1
    IN  <<b0x, b1m>> \o ToBeBytes(h.sequence, 2) \o ToBeBytes(h.timestamp, 4)
            \o ToBeBytes(h.ssrc, 4)

\* RtpHeader::deserialize, transport.rs:109-137: <<>> is None
DeserializeHeader(buf) ==
    IF Len(buf) < HeaderLen THEN <<>>
    ELSE <<[version |-> BitAnd(Shr8(buf[1], 6), 3),
            padding |-> BitAnd(buf[1], 32) # 0,
            extension |-> BitAnd(buf[1], 16) # 0,
            csrc_count |-> BitAnd(buf[1], 15),
            marker |-> BitAnd(buf[2], 128) # 0,
            payload_type |-> BitAnd(buf[2], 127),
            sequence |-> FromBeBytes(SubSeq(buf, 3, 4)),
            timestamp |-> FromBeBytes(SubSeq(buf, 5, 8)),
            ssrc |-> FromBeBytes(SubSeq(buf, 9, 12))]>>

\* RtpPacket::serialize, transport.rs:156-160
SerializePacket(p) == SerializeHeader(p.header) \o p.payload

\* RtpPacket::deserialize, transport.rs:162-171
DeserializePacket(buf, now) ==
    LET header == DeserializeHeader(buf) IN
    IF header = <<>> THEN <<>>
    ELSE <<[header |-> header[1], clock |-> now,
            payload |-> SubSeq(buf, HeaderLen + 1, Len(buf))]>>

\* RtpPacket::new(0, 0, 0, vec![]), never sent
RtpIdle ==
    /\ rtp_packet = [header |-> NewHeader(0, 0, 0), clock |-> 0, payload |-> <<>>]
    /\ wire = <<>>
    /\ rret = <<>>

\* a packet built by the sender, its header fields set freely (they are pub)
RtpInit ==
    /\ rtp_packet \in [header : RtpHeaders, clock : {0}, payload : RtpPayloads]
    /\ wire = <<>>
    /\ rret = <<>>

\* the sender serializes the packet
RtpSerialize ==
    /\ wire = <<>>
    /\ wire' = <<SerializePacket(rtp_packet)>>
    /\ UNCHANGED <<rtp_packet, rret>>
    /\ UNCHANGED tframe

\* the receiver deserializes the first len bytes of the datagram
RtpDeserialize(len, now) ==
    /\ wire # <<>>
    /\ len <= Len(wire[1])
    /\ LET buf == SubSeq(wire[1], 1, len) IN
       rret' = <<[buf |-> buf, out |-> DeserializePacket(buf, now)]>>
    /\ UNCHANGED <<rtp_packet, wire>>
    /\ UNCHANGED tframe

RtpNext ==
    \/ RtpSerialize
    \/ \E len \in CutLens \cup {Len(SerializePacket(rtp_packet))}, now \in Clocks :
           RtpDeserialize(len, now)

----------------------------------------------------------------------------
(* UdpRtpSender *)
(* A datagram is kept as what it carries, not as bytes: a data packet by   *)
(* its header fields and the frame count of its block, a parity packet by  *)
(* the data packets of the group it was generated from.  A u32 timestamp   *)
(* is kept as its two 16-bit halves.                                        *)

\* frames of the first channel of a block (0 for a block without channels)
FrameCounts == {0, 480}
\* group sizes enable_fec is called with
SenderGroupSizes == {1, 2}
\* sequence numbers a session has come to: its start and just before wraparound
SenderSequences == {0, 65534}
\* timestamps a session has come to: its start and just before wraparound
SenderTimestamps == {[hi |-> 0, lo |-> 0], [hi |-> 65535, lo |-> 65296]}
\* the session SSRC
SenderSsrcs == {99999}
\* socket.send_to: every send works, the data send fails, the parity send fails
SendFailures == {"none", "data", "parity"}

\* mutant of WrappingAdd32: the carry into the upper half is lost
WrappingAdd32NoCarry(t, n) == [hi |-> t.hi, lo |-> (t.lo + n) % U16]

\* u32::wrapping_add on the two halves
WrappingAdd32(t, n) ==
    [hi |-> (t.hi + ((t.lo + n) \div U16)) % U16, lo |-> (t.lo + n) % U16]

\* UdpRtpSender::new, network.rs:36-48; fec is <<>> for None
NewSender(ssrc) ==
    [ssrc |-> ssrc, sequence |-> 0, timestamp |-> [hi |-> 0, lo |-> 0], fec |-> <<>>]

\* XorFec::new, fec.rs:29-35
NewXorFec(size) == [group_size |-> size, current_group |-> <<>>, group_index |-> 0]

\* audio_block_to_rtp, transport.rs:243-251, as the sender calls it
DataPacket(s, frames) ==
    [kind |-> "data", ssrc |-> s.ssrc, sequence |-> s.sequence,
     timestamp |-> s.timestamp, frames |-> frames]

\* mutant of FecEncode: a parity after every data packet
FecEncodeEach(fec, packet) ==
    [fec |-> [fec EXCEPT !.current_group = <<>>, !.group_index = @ + 1],
     out |-> <<[kind |-> "parity", group |-> Append(fec.current_group, packet)]>>]

\* XorFec::encode, fec.rs:38-49: the codec left and the parity returned, if any
FecEncode(fec, packet) ==
    LET group == Append(fec.current_group, packet) IN
    IF Len(group) >= fec.group_size
    THEN [fec |-> [fec EXCEPT !.current_group = <<>>, !.group_index = @ + 1],
          out |-> <<[kind |-> "parity", group |-> group]>>]
    ELSE [fec |-> [fec EXCEPT !.current_group = group], out |-> <<>>]

\* the part of send_block that follows the data send, network.rs:64-77
AfterDataSent(s, frames, fail) ==
    LET packet == DataPacket(s, frames)
        enc == IF s.fec = <<>> THEN [fec |-> <<>>, out |-> <<>>]
               ELSE LET r == FecEncode(s.fec[1], packet) IN
                    [fec |-> <<r.fec>>, out |-> r.out]
    IN  IF enc.out # <<>> /\ fail = "parity"
        THEN [sender |-> [s EXCEPT !.fec = enc.fec], out |-> <<packet>>, ok |-> FALSE]
        ELSE [sender |-> [s EXCEPT !.fec = enc.fec,
                                   !.sequence = WrappingAdd(@, 1),
                                   !.timestamp = WrappingAdd32(@, frames)],
              out |-> <<packet>> \o enc.out, ok |-> TRUE]

\* UdpRtpSender::send_block, network.rs:54-78: the sender left, the datagrams
\* that went out, and whether the call returned Ok
SendBlockOf(s, frames, fail) ==
    IF fail = "data" THEN [sender |-> s, out |-> <<>>, ok |-> FALSE]
    ELSE AfterDataSent(s, frames, fail)

\* no UdpRtpSender at work
SenderIdle ==
    /\ sender = NewSender(0)
    /\ emitted = <<>>
    /\ since_fec = 0
    /\ nret = <<>>

\* a session under way
SenderInit ==
    /\ \E ssrc \in SenderSsrcs, sequence \in SenderSequences,
          timestamp \in SenderTimestamps :
           sender = [NewSender(ssrc) EXCEPT !.sequence = sequence,
                                            !.timestamp = timestamp]
    /\ emitted = <<>>
    /\ since_fec = 0
    /\ nret = <<>>

\* enable_fec, network.rs:50-52
EnableFec(size) ==
    /\ sender' = [sender EXCEPT !.fec = <<NewXorFec(size)>>]
    /\ nret' = <<[op |-> "enable_fec", ok |-> TRUE, out |-> <<>>]>>
    /\ since_fec' = 0
    /\ UNCHANGED emitted
    /\ UNCHANGED nframe

\* send_block, network.rs:54-78
SendBlock(frames, fail) ==
    /\ Len(emitted) < MaxDatagrams
    /\ LET r == SendBlockOf(sender, frames, fail) IN
       /\ sender' = r.sender
       /\ emitted' = emitted \o r.out
       /\ nret' = <<[op |-> "send_block", ok |-> r.ok, out |-> r.out]>>
       /\ since_fec' = IF sender.fec # <<>> /\ r.out # <<>> THEN since_fec + 1
                       ELSE since_fec
    /\ UNCHANGED nframe

SenderNext ==
    \/ \E size \in SenderGroupSizes : EnableFec(size)
    \/ \E frames \in FrameCounts, fail \in SendFailures : SendBlock(frames, fail)

----------------------------------------------------------------------------
(* SpeakerDiscovery and MultiSpeakerSender *)

\* speaker ids looked up
DiscoveryIds == {"sp1", "sp2", "sp3"}
\* rand::random() of add_speaker
RandomSsrcs == {7, 8}

\* find_speaker, network.rs:201-208, as far as add_speaker needs it
FindSpeaker(list, id) == \E i \in 1..Len(list) : list[i] = id

RECURSIVE BroadcastFrom(_, _, _, _)
\* the loop of broadcast_block from sender i on, network.rs:250-253: failing
\* are the senders whose socket refuses the datagram
BroadcastFrom(list, i, frames, failing) ==
    IF i > Len(list) THEN [senders |-> list, sent |-> {}, ok |-> TRUE]
    ELSE LET r == SendBlockOf(list[i], frames, IF i \in failing THEN "data" ELSE "none")
             here == [list EXCEPT ![i] = r.sender]
         IN  IF ~r.ok THEN [senders |-> here, sent |-> {}, ok |-> FALSE]
             ELSE LET rest == BroadcastFrom(here, i + 1, frames, failing) IN
                  [senders |-> rest.senders, sent |-> {i} \cup rest.sent, ok |-> rest.ok]

\* SpeakerDiscovery::new and MultiSpeakerSender::new, network.rs:178-183, 229-234
BroadcastIdle ==
    /\ speakers = <<>>
    /\ senders = <<>>
    /\ bret = <<>>

\* register_speaker, network.rs:191-195
RegisterSpeaker(id) ==
    /\ Len(speakers) < MaxSpeakers
    /\ speakers' = Append(speakers, id)
    /\ bret' = <<[op |-> "register_speaker", ok |-> TRUE, failing |-> {}, sent |-> {}]>>
    /\ UNCHANGED senders
    /\ UNCHANGED bframe

\* MultiSpeakerSender::add_speaker, network.rs:236-247
BroadcastAddSpeaker(id, ssrc) ==
    /\ Len(senders) < MaxSpeakers
    /\ IF FindSpeaker(speakers, id)
       THEN /\ senders' = Append(senders, NewSender(ssrc))
            /\ bret' = <<[op |-> "add_speaker", ok |-> TRUE, failing |-> {}, sent |-> {}]>>
       ELSE /\ UNCHANGED senders
            /\ bret' = <<[op |-> "add_speaker", ok |-> FALSE, failing |-> {}, sent |-> {}]>>
    /\ UNCHANGED speakers
    /\ UNCHANGED bframe

\* broadcast_block, network.rs:249-254
BroadcastBlock(frames, failing) ==
    /\ \A i \in 1..Len(senders) : senders[i].sequence < MaxBroadcasts
    /\ LET r == BroadcastFrom(senders, 1, frames, failing) IN
       /\ senders' = r.senders
       /\ bret' = <<[op |-> "broadcast_block", ok |-> r.ok, failing |-> failing,
                     sent |-> r.sent]>>
    /\ UNCHANGED speakers
    /\ UNCHANGED bframe

BroadcastNext ==
    \/ \E id \in DiscoveryIds : RegisterSpeaker(id)
    \/ \E id \in DiscoveryIds, ssrc \in RandomSsrcs : BroadcastAddSpeaker(id, ssrc)
    \/ \E frames \in {240}, failing \in SUBSET (1..Len(senders)) :
           BroadcastBlock(frames, failing)

----------------------------------------------------------------------------
(* UdpRtpReceiver *)
(* Its LossStatistics is stats; seen lists the sequence numbers it was     *)
(* updated with.                                                            *)

\* the packets on their way to the receiver
UdpPackets ==
    {[header |-> NewHeader(sequence, 0, 1), clock |-> 0, payload |-> payload] :
        sequence \in {0, 1, 3, 65535}, payload \in {<<>>, <<255>>}}

\* what socket.recv_from hands over: whole datagrams, datagrams cut below the
\* header length, and an empty one
UdpDatagrams ==
    {SerializePacket(p) : p \in UdpPackets}
        \cup {SubSeq(SerializePacket(p), 1, 11) : p \in UdpPackets} \cup {<<>>}

\* UdpRtpReceiver::new, network.rs:97-106
UdpReceiverIdle == uret = <<>>

\* the Result of recv_packet, network.rs:117-127: io is whether recv_from
\* returned a datagram
RecvPacketOf(io, datagram, now) ==
    IF ~io THEN [res |-> "Err(Io)", packet |-> <<>>]
    ELSE LET packet == DeserializePacket(datagram, now) IN
         IF packet = <<>> THEN [res |-> "Err(InvalidPacket)", packet |-> <<>>]
         ELSE [res |-> "Ok", packet |-> packet]

\* recv_packet, network.rs:117-127
RecvPacket(io, datagram, now) ==
    /\ Len(seen) < MaxUpdates
    /\ LET r == RecvPacketOf(io, datagram, now) IN
       /\ uret' = <<[op |-> "recv_packet", io |-> io, datagram |-> datagram,
                     res |-> r.res, packet |-> r.packet]>>
       /\ IF r.res = "Ok"
          THEN /\ stats' = UpdateStats(stats, r.packet[1].header.sequence)
               /\ seen' = Append(seen, r.packet[1].header.sequence)
          ELSE UNCHANGED <<stats, seen>>
    /\ UNCHANGED uframe

UdpReceiverNext ==
    \E io \in BOOLEAN, datagram \in UdpDatagrams, now \in Clocks :
        RecvPacket(io, datagram, now)

----------------------------------------------------------------------------
(* PtpClock, NtpClock and SystemClock *)
(* Time is in ms.  host is the host clock SystemTime::now() reads; it does *)
(* not go backwards.                                                        *)

ClockKinds == {"System", "Ptp", "Ntp"}
\* references handed to sync
References == {0, 100, 105, 200}
\* what the host clock advances by between two calls
HostSteps == {10}

\* mutant of PtpOffsetOf: the distance to the reference, whichever is ahead
PtpOffsetAbs(ref, local) == IF ref > local THEN ref - local ELSE local - ref

\* the offset PtpClock::sync assigns, sync.rs:68-72
PtpOffsetOf(ref, local) == IF ref > local THEN ref - local ELSE 0

\* the offset NtpClock::sync leaves, sync.rs:130-137
NtpOffsetOf(offset, ref, local) ==
    offset + ((IF ref > local THEN ref - local ELSE local - ref) \div 10)

\* now() of the three clocks, sync.rs:55-61, 116-122, 172-174
NowOf(c, local) == IF c.kind = "System" THEN local ELSE local + c.offset

\* sync() of the three clocks, sync.rs:63-76, 124-141, 176-179
SyncOf(c, ref, local) ==
    IF c.kind = "System" THEN c
    ELSE [c EXCEPT !.offset = IF c.kind = "Ptp" THEN PtpOffsetOf(ref, local)
                                ELSE NtpOffsetOf(@, ref, local),
                   !.last_sync = <<ref>>]

\* PtpClock::new, NtpClock::new, SystemClock::new, sync.rs:36-42, 95-101, 158-162
NewClock(kind) == [kind |-> kind, offset |-> 0, last_sync |-> <<>>]

\* no clock at work
ClockIdle ==
    /\ clock = NewClock("System")
    /\ host = 0
    /\ reading = <<>>
    /\ kret = <<>>

\* a clock of one of the three kinds, just built
ClockInit ==
    /\ \E kind \in ClockKinds : clock = NewClock(kind)
    /\ host = 0
    /\ reading = <<>>
    /\ kret = <<>>

\* time passes on the host
Tick(step) ==
    /\ host < MaxHost
    /\ host' = host + step
    /\ UNCHANGED <<clock, reading, kret>>
    /\ UNCHANGED kframe

\* ClockSync::now
ClockNow ==
    /\ reading' = <<NowOf(clock, host)>>
    /\ kret' = <<[op |-> "now", reference |-> 0, local |-> host]>>
    /\ UNCHANGED <<clock, host>>
    /\ UNCHANGED kframe

\* ClockSync::sync
ClockSyncTo(ref) ==
    /\ clock.kind = "Ntp" => clock.offset < MaxOffset
    /\ clock' = SyncOf(clock, ref, host)
    /\ kret' = <<[op |-> "sync", reference |-> ref, local |-> host]>>
    /\ UNCHANGED <<host, reading>>
    /\ UNCHANGED kframe

ClockNext ==
    \/ \E step \in HostSteps : Tick(step)
    \/ ClockNow
    \/ \E ref \in References : ClockSyncTo(ref)

----------------------------------------------------------------------------
(* AudioBlock and LossConcealer *)
(* Samples are whole numbers, chosen so that the products of the fade are  *)
(* whole as well.                                                           *)

\* AudioBlock::silence, lib.rs:114-119
SilenceBlock(num_channels, frames, sample_rate) ==
    [sample_rate |-> sample_rate,
     channels |-> [c \in 1..num_channels |-> [i \in 1..frames |-> 0]]]

\* AudioBlock::frame_len, lib.rs:121-123
FrameLen(block) == IF block.channels = <<>> THEN 0 ELSE Len(block.channels[1])

ConcealmentStrategies == {"Silence", "Repeat", "Interpolate"}
SampleRates == {44100, 48000}
\* channels of up to two samples
ConcealChannels == SeqsUpTo({6, -12}, 2)
\* the blocks given to update: up to two channels, not all of one length
ConcealBlocks ==
    [sample_rate : SampleRates, channels : SeqsUpTo(ConcealChannels, 2)]
\* the shapes conceal is asked for
ConcealRequests ==
    [sample_rate : {48000}, num_channels : {0, 1, 2}, frames : {0, 3}]

\* mutant of FadeOut: the ramp runs upwards
FadeIn(channel) ==
    [i \in 1..Len(channel) |-> (channel[i] * i) \div Len(channel)]

\* sample *= 1.0 - i / len for i = 0..len-1, fec.rs:199-203
FadeOut(channel) ==
    [i \in 1..Len(channel) |-> (channel[i] * (Len(channel) - (i - 1))) \div Len(channel)]

\* LossConcealer::conceal, fec.rs:184-211: last is <<>> for None
ConcealOf(s, last, sample_rate, num_channels, frames) ==
    IF s = "Silence" \/ last = <<>> THEN SilenceBlock(num_channels, frames, sample_rate)
    ELSE IF s = "Repeat" THEN last[1]
    ELSE [last[1] EXCEPT !.channels = [c \in 1..Len(@) |-> FadeOut(@[c])]]

\* no concealer at work: LossConcealer::new(Silence), fec.rs:173-178
ConcealIdle ==
    /\ strategy = "Silence"
    /\ last_block = <<>>
    /\ conceal_out = <<>>

\* LossConcealer::new, fec.rs:173-178
ConcealInit ==
    /\ strategy \in ConcealmentStrategies
    /\ last_block = <<>>
    /\ conceal_out = <<>>

\* LossConcealer::update, fec.rs:180-182
ConcealUpdate(block) ==
    /\ last_block' = <<block>>
    /\ conceal_out' = <<>>
    /\ UNCHANGED strategy
    /\ UNCHANGED oframe

\* LossConcealer::conceal, fec.rs:184-211
Conceal(req) ==
    /\ conceal_out' = <<[req |-> req,
                         block |-> ConcealOf(strategy, last_block, req.sample_rate,
                                             req.num_channels, req.frames)]>>
    /\ UNCHANGED <<strategy, last_block>>
    /\ UNCHANGED oframe

ConcealNext ==
    \/ \E block \in ConcealBlocks : ConcealUpdate(block)
    \/ \E req \in ConcealRequests : Conceal(req)

----------------------------------------------------------------------------
(* Channel-based mapping to a layout *)

\* SpeakerRole values the element and the layout use
Roles == {"FrontLeft", "FrontRight", "Center"}
\* channel_labels of the element
LabelLists == SeqsUpTo(Roles, 3)
\* the roles of layout.speakers, in order
RoleLists == SeqsUpTo(Roles, 3)
\* the audio supplied: every channel known by its samples
MapAudios ==
    {[sample_rate |-> 48000, channels |-> ch] :
        ch \in {<<>>, <<<<1, 1>>>>, <<<<1, 1>>, <<2, 2>>>>, <<<<1, 1>>, <<2>>, <<3, 3>>>>}}

\* layout.speakers.iter().position(|s| &s.role == label), iamf.rs:213: 0 is None
Position(roles, label) ==
    IF \E j \in 1..Len(roles) : roles[j] = label
    THEN CHOOSE j \in 1..Len(roles) :
             roles[j] = label /\ \A k \in 1..(j - 1) : roles[k] # label
    ELSE 0

RECURSIVE MapFrom(_, _, _, _, _)
\* the loop over the channel labels from the i-th on, iamf.rs:207-216
MapFrom(output, labels, audio, roles, i) ==
    IF i > Len(labels) \/ i > Len(audio.channels) THEN output
    ELSE LET spk == Position(roles, labels[i]) IN
         MapFrom(IF spk = 0 THEN output ELSE [output EXCEPT ![spk] = audio.channels[i]],
                 labels, audio, roles, i + 1)

\* map_channel_element_to_layout, iamf.rs:198-222
MapChannelElementToLayout(labels, audio, roles) ==
    [sample_rate |-> audio.sample_rate,
     channels |-> MapFrom([j \in 1..Len(roles) |-> [i \in 1..FrameLen(audio) |-> 0]],
                          labels, audio, roles, 1)]

\* nothing to map
MapperIdle ==
    /\ map_in = [labels |-> <<>>, audio |-> SilenceBlock(0, 0, 48000), roles |-> <<>>]
    /\ map_out = <<>>

\* an element, its audio and a layout
MapperInit ==
    /\ map_in \in [labels : LabelLists, audio : MapAudios, roles : RoleLists]
    /\ map_out = <<>>

\* one call of map_channel_element_to_layout
MapChannels ==
    /\ map_out = <<>>
    /\ map_out' = <<MapChannelElementToLayout(map_in.labels, map_in.audio, map_in.roles)>>
    /\ UNCHANGED map_in
    /\ UNCHANGED mframe

MapperNext == MapChannels

----------------------------------------------------------------------------
(* HeadroomManager: the look-ahead limiter *)
(* Samples and the threshold are in hundredths of full scale, the gain in  *)
(* thousandths; an emitted sample is kept as sample * gain, unrounded.     *)

\* limiter_gain 1.0
GainOne == 1000
\* db_to_linear(limiting_threshold_db): -3 dB and +3 dB
Thresholds == {70, 141}
\* lookahead_samples, at least 1
Lookaheads == {1, 2}
\* blocks of up to two channels of up to two samples
LimiterChannels == SeqsUpTo({-200, 50, 99}, 2)
LimiterBlocks == [sample_rate : {48000}, channels : SeqsUpTo(LimiterChannels, 2)]

Abs(x) == IF x < 0 THEN -x ELSE x

\* mutant of AheadMax: the window starts after the sample at hand
AheadMaxNext(channel, i, lookahead) ==
    LET end == IF i + lookahead - 1 < Len(channel) THEN i + lookahead - 1 ELSE Len(channel)
        window == {Abs(channel[k]) : k \in (i + 1)..end} \cup {0}
    IN  CHOOSE m \in window : \A v \in window : v <= m

\* the largest magnitude in channel[i..min(i + lookahead, len)], loudness.rs:178-185
AheadMax(channel, i, lookahead) ==
    LET end == IF i + lookahead - 1 < Len(channel) THEN i + lookahead - 1 ELSE Len(channel)
        window == {Abs(channel[k]) : k \in i..end} \cup {Abs(channel[i])}
    IN  CHOOSE m \in window : \A v \in window : v <= m

\* the gain after one sample, loudness.rs:187-194, rounded to the nearest
\* thousandth; ahead > threshold makes ahead.max(0.0001) ahead itself
GainAfter(gain, ahead, threshold) ==
    IF ahead > threshold
    THEN LET gain_needed == ((threshold * GainOne * 2) + ahead) \div (2 * ahead) IN
         IF gain_needed < gain THEN gain_needed ELSE gain
    ELSE LET released == ((gain * 99) + GainOne + 50) \div 100 IN
         IF released < GainOne THEN released ELSE GainOne

RECURSIVE LimitChannel(_, _, _, _, _, _)
\* the inner loop from sample i on, loudness.rs:177-197: the samples emitted
\* so far, and the gain left
LimitChannel(channel, i, gain, threshold, lookahead, done) ==
    IF i > Len(channel) THEN [out |-> done, gain |-> gain]
    ELSE LET g == GainAfter(gain, AheadMax(channel, i, lookahead), threshold) IN
         LimitChannel(channel, i + 1, g, threshold, lookahead,
                      Append(done, channel[i] * g))

RECURSIVE LimitChannels(_, _, _, _, _, _)
\* the outer loop from channel c on, loudness.rs:175-198
LimitChannels(channels, c, gain, threshold, lookahead, done) ==
    IF c > Len(channels) THEN [out |-> done, gain |-> gain]
    ELSE LET r == LimitChannel(channels[c], 1, gain, threshold, lookahead, <<>>) IN
         LimitChannels(channels, c + 1, r.gain, threshold, lookahead,
                       Append(done, r.out))

\* no limiter at work
LimiterIdle ==
    /\ limiter = [threshold |-> 70, lookahead_samples |-> 1, limiter_gain |-> GainOne]
    /\ lim_out = <<>>
    /\ lim_calls = 0

\* HeadroomManager::new and set_lookahead_ms, loudness.rs:146-165
LimiterInit ==
    /\ limiter \in [threshold : Thresholds, lookahead_samples : Lookaheads,
                    limiter_gain : {GainOne}]
    /\ lim_out = <<>>
    /\ lim_calls = 0

\* apply_limiting, loudness.rs:168-199
ApplyLimiting(block) ==
    /\ lim_calls < MaxBlocks
    /\ lim_calls' = lim_calls + 1
    /\ LET r == LimitChannels(block.channels, 1, limiter.limiter_gain,
                              limiter.threshold, limiter.lookahead_samples, <<>>)
       IN  /\ limiter' = [limiter EXCEPT !.limiter_gain = r.gain]
           /\ lim_out' = <<[input |-> block, channels |-> r.out]>>
    /\ UNCHANGED hframe

LimiterNext == \E block \in LimiterBlocks : ApplyLimiting(block)

----------------------------------------------------------------------------
(* A UdpRtpSender with FEC and a UdpRtpReceiver on its target address, over *)
(* a network that delivers every datagram, in the order sent                *)

\* group sizes the sender of the link has FEC enabled with
LinkGroupSizes == {1, 2, 3}

\* serialize_audio_block(block), transport.rs:249: the payload stands for the
\* encoded block, two bytes that differ with the frame count
PayloadOf(frames) == ToBeBytes(frames, 2)

\* packet.serialize() of a data packet the sender built, network.rs:56-60
WireOfData(d) ==
    SerializePacket([header |-> NewHeader(d.sequence,
                                          d.timestamp.hi * U16 + d.timestamp.lo,
                                          d.ssrc),
                     clock |-> 0,
                     payload |-> PayloadOf(d.frames)])

\* the bytes handed to socket.send_to, network.rs:62 and 68: a serialized
\* data packet, or the parity XorFec::encode made of the serialized group
WireOf(d) ==
    IF d.kind = "data" THEN WireOfData(d)
    ELSE GenerateFec([i \in 1..Len(d.group) |-> WireOfData(d.group[i])])

\* nothing in flight
LinkIdle == delivered = 0

\* UdpRtpSender::new followed by enable_fec, network.rs:36-52
LinkSenderInit ==
    /\ \E ssrc \in SenderSsrcs, sequence \in SenderSequences, size \in LinkGroupSizes :
           sender = [NewSender(ssrc) EXCEPT !.sequence = sequence,
                                            !.fec = <<NewXorFec(size)>>]
    /\ emitted = <<>>
    /\ since_fec = 0
    /\ nret = <<>>

\* send_block with a socket that sends
LinkSend(frames) == SendBlock(frames, "none")

\* recv_packet on the next datagram in flight, network.rs:117-127
Deliver(now) ==
    /\ delivered < Len(emitted)
    /\ delivered' = delivered + 1
    /\ LET datagram == WireOf(emitted[delivered + 1])
           r == RecvPacketOf(TRUE, datagram, now)
       IN  /\ uret' = <<[op |-> "recv_packet", io |-> TRUE, datagram |-> datagram,
                         res |-> r.res, packet |-> r.packet]>>
           /\ IF r.res = "Ok"
              THEN /\ stats' = UpdateStats(stats, r.packet[1].header.sequence)
                   /\ seen' = Append(seen, r.packet[1].header.sequence)
              ELSE UNCHANGED <<stats, seen>>
    /\ UNCHANGED wframe

LinkNext ==
    \/ \E frames \in FrameCounts : LinkSend(frames)
    \/ \E now \in Clocks : Deliver(now)
----------------------------------------------------------------------------
(* ReferenceRenderer: the stages one render call runs *)
(* The renderer is kept as which of its optional parts are there; a render  *)
(* call is kept as the stages it ran, in the order it ran them.             *)

\* opts.target_loudness: None, or a target
TargetLoudnesses == {<<>>, <<"StreamingMusic">>}

\* mutant of RenderStages: headroom protection ahead of the loudness stages
RenderStagesLimiterFirst(r, opts) ==
    <<"limiter">>
        \o (IF r.drc THEN <<"drc">> ELSE <<>>)
        \o (IF r.loudness_normalizer \/ opts.target_loudness # <<>>
            THEN <<"normalize">> ELSE <<>>)
        \o (IF r.binaural_renderer /\ r.current_binaural_position
            THEN <<"binaural">> ELSE <<>>)

\* the stages of ReferenceRenderer::render, render.rs:176-226
RenderStages(r, opts) ==
    (IF r.drc THEN <<"drc">> ELSE <<>>)
        \o (IF r.loudness_normalizer \/ opts.target_loudness # <<>>
            THEN <<"normalize">> ELSE <<>>)
        \o <<"limiter">>
        \o (IF r.binaural_renderer /\ r.current_binaural_position
            THEN <<"binaural">> ELSE <<>>)

\* ReferenceRenderer::new, render.rs:76-85
NewRenderer ==
    [drc |-> FALSE, loudness_normalizer |-> FALSE, binaural_renderer |-> FALSE,
     current_binaural_position |-> FALSE]

\* no renderer at work
RendererIdle ==
    /\ renderer = NewRenderer
    /\ render_out = <<>>

\* set_loudness_target, render.rs:90-92
SetLoudnessTarget ==
    /\ renderer' = [renderer EXCEPT !.loudness_normalizer = TRUE]
    /\ UNCHANGED render_out
    /\ UNCHANGED gframe

\* disable_loudness_normalization, render.rs:95-97
DisableLoudnessNormalization ==
    /\ renderer' = [renderer EXCEPT !.loudness_normalizer = FALSE]
    /\ UNCHANGED render_out
    /\ UNCHANGED gframe

\* enable_drc, enable_drc_with_params and apply_drc_preset, render.rs:100-125, 133-136
EnableDrc ==
    /\ renderer' = [renderer EXCEPT !.drc = TRUE]
    /\ UNCHANGED render_out
    /\ UNCHANGED gframe

\* disable_drc, render.rs:128-130
DisableDrc ==
    /\ renderer' = [renderer EXCEPT !.drc = FALSE]
    /\ UNCHANGED render_out
    /\ UNCHANGED gframe

\* enable_binaural, render.rs:151-157
EnableBinaural ==
    /\ renderer' = [renderer EXCEPT !.binaural_renderer = TRUE,
                                    !.current_binaural_position = TRUE]
    /\ UNCHANGED render_out
    /\ UNCHANGED gframe

\* disable_binaural, render.rs:160-163
DisableBinaural ==
    /\ renderer' = [renderer EXCEPT !.binaural_renderer = FALSE,
                                    !.current_binaural_position = FALSE]
    /\ UNCHANGED render_out
    /\ UNCHANGED gframe

\* set_binaural_position, render.rs:166-168
SetBinauralPosition ==
    /\ renderer' = [renderer EXCEPT !.current_binaural_position = TRUE]
    /\ UNCHANGED render_out
    /\ UNCHANGED gframe

\* render, render.rs:176-226
Render(opts) ==
    /\ render_out' = <<[opts |-> opts, renderer |-> renderer,
                        stages |-> RenderStages(renderer, opts)]>>
    /\ UNCHANGED renderer
    /\ UNCHANGED gframe

RendererNext ==
    \/ SetLoudnessTarget
    \/ DisableLoudnessNormalization
    \/ EnableDrc
    \/ DisableDrc
    \/ EnableBinaural
    \/ DisableBinaural
    \/ SetBinauralPosition
    \/ \E target \in TargetLoudnesses : Render([target_loudness |-> target])
----------------------------------------------------------------------------
(* EngineState behind the REST API, one request at a time *)
(* A speaker is kept as its id, a layout as its name and the roles of its   *)
(* speakers, the statistics of a speaker as the id they are stored under.   *)

\* ids of speakers
SpeakerUuids == {"u1", "u2"}
\* LayoutRequest.preset: None, or a name
PresetRequests == {<<>>, <<"stereo">>, <<"5.1">>, <<"7.1">>, <<"quad">>}
\* the commands of the transport
TransportCommands == {"play", "pause", "stop"}

\* SpeakerLayout::stereo, lib.rs:98-100
StereoLayout == [name |-> "stereo", speakers |-> <<"FrontLeft", "FrontRight">>]

\* SpeakerLayout::surround_5_1, lib.rs:102-104
Surround51Layout ==
    [name |-> "5.1",
     speakers |-> <<"FrontLeft", "FrontRight", "Center", "Subwoofer",
                    "SideLeft", "SideRight">>]

\* the match on the preset in set_layout, api.rs:130-139: the layout and the
\* status returned at once when there is none
LayoutOfPreset(preset) ==
    IF preset = <<>> THEN [layout |-> <<>>, status |-> 501]
    ELSE IF preset[1] = "stereo" THEN [layout |-> <<StereoLayout>>, status |-> 200]
    ELSE IF preset[1] = "5.1" THEN [layout |-> <<Surround51Layout>>, status |-> 200]
    ELSE [layout |-> <<>>, status |-> 400]

\* mutant of TransportStateAfter: pause taken for stop
TransportStateAfterPauseStops(command) ==
    IF command = "play" THEN "Playing" ELSE "Stopped"

\* EngineState::play, pause and stop, engine.rs:157-167
TransportStateAfter(command) ==
    IF command = "play" THEN "Playing"
    ELSE IF command = "pause" THEN "Paused"
    ELSE "Stopped"

\* EngineState::new, engine.rs:118-137
NewEngine ==
    [speakers |-> {}, layout |-> <<>>, transport_state |-> "Stopped",
     speaker_stats |-> {}]

\* the response of GET /speakers/:id, api.rs:93-104
GetSpeakerOf(e, id) ==
    IF id \in e.speakers THEN [status |-> 200, body |-> <<id>>]
    ELSE [status |-> 404, body |-> <<>>]

\* the response of GET /speakers/:id/stats, api.rs:212-224
SpeakerStatsOf(e, id) ==
    IF id \in e.speaker_stats THEN [status |-> 200, body |-> <<id>>]
    ELSE [status |-> 404, body |-> <<>>]

\* the response of GET /layout, api.rs:117-120
GetLayoutOf(e) ==
    IF e.layout # <<>> THEN [status |-> 200, body |-> e.layout]
    ELSE [status |-> 404, body |-> <<>>]

\* a request and its response
Response(req, arg, status, body) ==
    [req |-> req, arg |-> arg, status |-> status, body |-> body]

\* the daemon just started
EngineIdle ==
    /\ engine = NewEngine
    /\ aret = Response("none", <<>>, 0, <<>>)

\* EngineState::add_speaker, engine.rs:145-147
EngineAddSpeaker(id) ==
    /\ engine' = [engine EXCEPT !.speakers = @ \cup {id}]
    /\ aret' = Response("add_speaker", <<id>>, 0, <<>>)
    /\ UNCHANGED eframe

\* EngineState::update_stats, engine.rs:174-176
EngineUpdateStats(id) ==
    /\ engine' = [engine EXCEPT !.speaker_stats = @ \cup {id}]
    /\ aret' = Response("update_stats", <<id>>, 0, <<>>)
    /\ UNCHANGED eframe

\* GET /speakers/:id, api.rs:93-104
GetSpeaker(id) ==
    /\ LET r == GetSpeakerOf(engine, id) IN
       aret' = Response("get_speaker", <<id>>, r.status, r.body)
    /\ UNCHANGED engine
    /\ UNCHANGED eframe

\* DELETE /speakers/:id, api.rs:107-114, with EngineState::remove_speaker,
\* engine.rs:149-151
ApiRemoveSpeaker(id) ==
    /\ engine' = [engine EXCEPT !.speakers = @ \ {id}]
    /\ aret' = Response("remove_speaker", <<id>>,
                        IF id \in engine.speakers THEN 204 ELSE 404, <<>>)
    /\ UNCHANGED eframe

\* GET /speakers/:id/stats, api.rs:212-224
SpeakerStats(id) ==
    /\ LET r == SpeakerStatsOf(engine, id) IN
       aret' = Response("speaker_stats", <<id>>, r.status, r.body)
    /\ UNCHANGED engine
    /\ UNCHANGED eframe

\* GET /layout, api.rs:117-120
GetLayout ==
    /\ LET r == GetLayoutOf(engine) IN
       aret' = Response("get_layout", <<>>, r.status, r.body)
    /\ UNCHANGED engine
    /\ UNCHANGED eframe

\* POST /layout, api.rs:123-143, with EngineState::set_layout, engine.rs:153-155
SetLayout(preset) ==
    /\ LET r == LayoutOfPreset(preset) IN
       /\ engine' = IF r.status = 200 THEN [engine EXCEPT !.layout = r.layout]
                    ELSE engine
       /\ aret' = Response("set_layout", preset, r.status, <<>>)
    /\ UNCHANGED eframe

\* POST /transport/play, /transport/pause and /transport/stop, api.rs:146-164
Transport(command) ==
    /\ engine' = [engine EXCEPT !.transport_state = TransportStateAfter(command)]
    /\ aret' = Response(command, <<>>, 200, <<>>)
    /\ UNCHANGED eframe

\* GET /transport/status, api.rs:167-172
TransportStatus ==
    /\ aret' = Response("transport_status", <<>>, 200, <<engine.transport_state>>)
    /\ UNCHANGED engine
    /\ UNCHANGED eframe

EngineNext ==
    \/ \E id \in SpeakerUuids : EngineAddSpeaker(id)
    \/ \E id \in SpeakerUuids : EngineUpdateStats(id)
    \/ \E id \in SpeakerUuids : GetSpeaker(id)
    \/ \E id \in SpeakerUuids : ApiRemoveSpeaker(id)
    \/ \E id \in SpeakerUuids : SpeakerStats(id)
    \/ GetLayout
    \/ \E preset \in PresetRequests : SetLayout(preset)
    \/ \E command \in TransportCommands : Transport(command)
    \/ TransportStatus
----------------------------------------------------------------------------
(* AppState: handlers running concurrently on one Arc<RwLock<EngineState>>  *)
(* A handler waits for the lock, works on the state while it holds the      *)
(* guard and gives the lock back when it returns.  A layout is moved and    *)
(* cloned one field after the other: the name, then the speakers.           *)

\* the handlers in flight at one time
Handlers == {1, 2, 3}
\* the presets the concurrent POST /layout requests carry
RacingPresets == {"stereo", "5.1", "7.1"}

\* mutant of CanRead: a reader that does not wait for the writer
CanReadAlways(l) == TRUE

\* RwLock::read is granted, lib.rs:15-18: no writer holds the lock
CanRead(l) == l.writer = 0

\* RwLock::write is granted, lib.rs:15-18: nobody holds the lock
CanWrite(l) == l.writer = 0 /\ l.readers = {}

\* a handler that is not running
NoRequest ==
    [kind |-> "none", arg |-> <<>>, pc |-> "idle", local |-> <<>>,
     status |-> 0, body |-> <<>>]

\* the daemon just started, no request in flight
RequestsIdle ==
    /\ lock = [writer |-> 0, readers |-> {}]
    /\ shared = NewEngine
    /\ reqs = [i \in Handlers |-> NoRequest]
    /\ last_transport = <<>>

\* a request arrives and its handler is polled up to the lock
StartRequest(i, kind, arg) ==
    /\ reqs[i].pc = "idle"
    /\ reqs' = [reqs EXCEPT ![i] = [NoRequest EXCEPT !.kind = kind, !.arg = arg,
                                                     !.pc = "waiting"]]
    /\ UNCHANGED <<lock, shared, last_transport>>
    /\ UNCHANGED qframe

\* state.engine.read().await in get_layout, api.rs:118
AcquireRead(i) ==
    /\ reqs[i].pc = "waiting"
    /\ reqs[i].kind = "get_layout"
    /\ CanRead(lock)
    /\ lock' = [lock EXCEPT !.readers = @ \cup {i}]
    /\ reqs' = [reqs EXCEPT ![i].pc = "locked"]
    /\ UNCHANGED <<shared, last_transport>>
    /\ UNCHANGED qframe

\* state.engine.write().await in set_layout and the transport commands,
\* api.rs:127, 147, 154, 161
AcquireWrite(i) ==
    /\ reqs[i].pc = "waiting"
    /\ reqs[i].kind \in {"set_layout"} \cup TransportCommands
    /\ CanWrite(lock)
    /\ lock' = [lock EXCEPT !.writer = i]
    /\ reqs' = [reqs EXCEPT ![i].pc = "locked"]
    /\ last_transport' = IF reqs[i].kind \in TransportCommands
                         THEN <<reqs[i].kind>> ELSE last_transport
    /\ UNCHANGED shared
    /\ UNCHANGED qframe

\* engine.layout.clone() in get_layout, api.rs:119: the name
CloneName(i) ==
    /\ reqs[i].pc = "locked"
    /\ reqs[i].kind = "get_layout"
    /\ reqs' = [reqs EXCEPT ![i].pc = "half",
                            ![i].local = IF shared.layout = <<>> THEN <<>>
                                         ELSE <<shared.layout[1].name>>]
    /\ UNCHANGED <<lock, shared, last_transport>>
    /\ UNCHANGED qframe

\* engine.layout.clone() in get_layout, api.rs:119: the speakers; the
\* response, and the guard dropped
CloneSpeakers(i) ==
    /\ reqs[i].pc = "half"
    /\ reqs[i].kind = "get_layout"
    /\ reqs' = [reqs EXCEPT ![i].pc = "done",
                            ![i].status = IF reqs[i].local = <<>> THEN 404 ELSE 200,
                            ![i].body = IF reqs[i].local = <<>> THEN <<>>
                                        ELSE <<[name |-> reqs[i].local[1],
                                                speakers |-> shared.layout[1].speakers]>>]
    /\ lock' = [lock EXCEPT !.readers = @ \ {i}]
    /\ UNCHANGED <<shared, last_transport>>
    /\ UNCHANGED qframe

\* set_layout with a preset it knows, api.rs:130-134 and engine.rs:153-155:
\* the name of the layout moved into the state
MoveName(i) ==
    /\ reqs[i].pc = "locked"
    /\ reqs[i].kind = "set_layout"
    /\ LayoutOfPreset(reqs[i].arg).status = 200
    /\ LET new == LayoutOfPreset(reqs[i].arg).layout[1] IN
       shared' = [shared EXCEPT !.layout =
                     <<[name |-> new.name,
                        speakers |-> IF shared.layout = <<>> THEN <<>>
                                     ELSE shared.layout[1].speakers]>>]
    /\ reqs' = [reqs EXCEPT ![i].pc = "half"]
    /\ UNCHANGED <<lock, last_transport>>
    /\ UNCHANGED qframe

\* set_layout, engine.rs:153-155 and api.rs:141-143: the speakers moved into
\* the state; the response, and the guard dropped
MoveSpeakers(i) ==
    /\ reqs[i].pc = "half"
    /\ reqs[i].kind = "set_layout"
    /\ shared' = [shared EXCEPT !.layout = LayoutOfPreset(reqs[i].arg).layout]
    /\ reqs' = [reqs EXCEPT ![i].pc = "done", ![i].status = 200]
    /\ lock' = [lock EXCEPT !.writer = 0]
    /\ UNCHANGED last_transport
    /\ UNCHANGED qframe

\* set_layout returning early, api.rs:133, 137: the guard dropped
RejectLayout(i) ==
    /\ reqs[i].pc = "locked"
    /\ reqs[i].kind = "set_layout"
    /\ LayoutOfPreset(reqs[i].arg).status # 200
    /\ reqs' = [reqs EXCEPT ![i].pc = "done",
                            ![i].status = LayoutOfPreset(reqs[i].arg).status]
    /\ lock' = [lock EXCEPT !.writer = 0]
    /\ UNCHANGED <<shared, last_transport>>
    /\ UNCHANGED qframe

\* transport_play, transport_pause and transport_stop with the lock held,
\* api.rs:148-150, 155-157, 162-164
RunTransport(i) ==
    /\ reqs[i].pc = "locked"
    /\ reqs[i].kind \in TransportCommands
    /\ shared' = [shared EXCEPT !.transport_state = TransportStateAfter(reqs[i].kind)]
    /\ reqs' = [reqs EXCEPT ![i].pc = "done", ![i].status = 200]
    /\ lock' = [lock EXCEPT !.writer = 0]
    /\ UNCHANGED last_transport
    /\ UNCHANGED qframe

\* the response is sent, the handler is free again
FinishRequest(i) ==
    /\ reqs[i].pc = "done"
    /\ reqs' = [reqs EXCEPT ![i] = NoRequest]
    /\ UNCHANGED <<lock, shared, last_transport>>
    /\ UNCHANGED qframe

RequestsNext ==
    \E i \in Handlers :
        \/ StartRequest(i, "get_layout", <<>>)
        \/ \E preset \in RacingPresets : StartRequest(i, "set_layout", <<preset>>)
        \/ \E command \in TransportCommands : StartRequest(i, command, <<>>)
        \/ AcquireRead(i)
        \/ AcquireWrite(i)
        \/ CloneName(i)
        \/ CloneSpeakers(i)
        \/ MoveName(i)
        \/ MoveSpeakers(i)
        \/ RejectLayout(i)
        \/ RunTransport(i)
        \/ FinishRequest(i)
----------------------------------------------------------------------------
(* Specifications: one component at work, the others untouched *)

InitJitter == JitterInit /\ FecIdle /\ LossIdle /\ ReceiverIdle /\ LatencyIdle /\ SyncIdle /\ RtpIdle
    /\ SenderIdle /\ BroadcastIdle /\ UdpReceiverIdle /\ ClockIdle /\ ConcealIdle /\ MapperIdle /\ LimiterIdle
    /\ LinkIdle /\ RendererIdle /\ EngineIdle /\ RequestsIdle

SpecJitter == InitJitter /\ [][JitterNext]_vars

InitFecEncode == JitterIdle /\ EncodeInit /\ LossIdle /\ ReceiverIdle /\ LatencyIdle /\ SyncIdle /\ RtpIdle
    /\ SenderIdle /\ BroadcastIdle /\ UdpReceiverIdle /\ ClockIdle /\ ConcealIdle /\ MapperIdle /\ LimiterIdle
    /\ LinkIdle /\ RendererIdle /\ EngineIdle /\ RequestsIdle

SpecFecEncode == InitFecEncode /\ [][EncodeNext]_vars

InitFecDecode == JitterIdle /\ DecodeInit /\ LossIdle /\ ReceiverIdle /\ LatencyIdle /\ SyncIdle /\ RtpIdle
    /\ SenderIdle /\ BroadcastIdle /\ UdpReceiverIdle /\ ClockIdle /\ ConcealIdle /\ MapperIdle /\ LimiterIdle
    /\ LinkIdle /\ RendererIdle /\ EngineIdle /\ RequestsIdle

DecodeNext == Decode

SpecFecDecode == InitFecDecode /\ [][DecodeNext]_vars

InitLoss == JitterIdle /\ FecIdle /\ LossIdle /\ ReceiverIdle /\ LatencyIdle /\ SyncIdle /\ RtpIdle
    /\ SenderIdle /\ BroadcastIdle /\ UdpReceiverIdle /\ ClockIdle /\ ConcealIdle /\ MapperIdle /\ LimiterIdle
    /\ LinkIdle /\ RendererIdle /\ EngineIdle /\ RequestsIdle

SpecLoss == InitLoss /\ [][LossNext]_vars

\* FecReceiver::new(group_size, concealment)
InitReceiver == JitterIdle /\ ReceiverFecInit /\ LossIdle /\ ReceiverIdle /\ LatencyIdle /\ SyncIdle /\ RtpIdle
    /\ SenderIdle /\ BroadcastIdle /\ UdpReceiverIdle /\ ClockIdle /\ ConcealIdle /\ MapperIdle /\ LimiterIdle
    /\ LinkIdle /\ RendererIdle /\ EngineIdle /\ RequestsIdle

SpecReceiver == InitReceiver /\ [][ReceiverNext]_vars

InitLatency == JitterIdle /\ FecIdle /\ LossIdle /\ ReceiverIdle /\ LatencyIdle /\ SyncIdle /\ RtpIdle
    /\ SenderIdle /\ BroadcastIdle /\ UdpReceiverIdle /\ ClockIdle /\ ConcealIdle /\ MapperIdle /\ LimiterIdle
    /\ LinkIdle /\ RendererIdle /\ EngineIdle /\ RequestsIdle

SpecLatency == InitLatency /\ [][LatencyNext]_vars

InitSync == JitterIdle /\ FecIdle /\ LossIdle /\ ReceiverIdle /\ SyncCompensatorInit /\ SyncIdle /\ RtpIdle
    /\ SenderIdle /\ BroadcastIdle /\ UdpReceiverIdle /\ ClockIdle /\ ConcealIdle /\ MapperIdle /\ LimiterIdle
    /\ LinkIdle /\ RendererIdle /\ EngineIdle /\ RequestsIdle

SpecSync == InitSync /\ [][SyncNext]_vars

InitRtp == JitterIdle /\ FecIdle /\ LossIdle /\ ReceiverIdle /\ LatencyIdle /\ SyncIdle /\ RtpInit
    /\ SenderIdle /\ BroadcastIdle /\ UdpReceiverIdle /\ ClockIdle /\ ConcealIdle /\ MapperIdle /\ LimiterIdle
    /\ LinkIdle /\ RendererIdle /\ EngineIdle /\ RequestsIdle

SpecRtp == InitRtp /\ [][RtpNext]_vars

InitSender == JitterIdle /\ FecIdle /\ LossIdle /\ ReceiverIdle /\ LatencyIdle /\ SyncIdle /\ RtpIdle
    /\ SenderInit /\ BroadcastIdle /\ UdpReceiverIdle /\ ClockIdle /\ ConcealIdle /\ MapperIdle /\ LimiterIdle
    /\ LinkIdle /\ RendererIdle /\ EngineIdle /\ RequestsIdle

SpecSender == InitSender /\ [][SenderNext]_vars

InitBroadcast == JitterIdle /\ FecIdle /\ LossIdle /\ ReceiverIdle /\ LatencyIdle /\ SyncIdle /\ RtpIdle
    /\ SenderIdle /\ BroadcastIdle /\ UdpReceiverIdle /\ ClockIdle /\ ConcealIdle /\ MapperIdle /\ LimiterIdle
    /\ LinkIdle /\ RendererIdle /\ EngineIdle /\ RequestsIdle

SpecBroadcast == InitBroadcast /\ [][BroadcastNext]_vars

InitUdpReceiver == JitterIdle /\ FecIdle /\ LossIdle /\ ReceiverIdle /\ LatencyIdle /\ SyncIdle /\ RtpIdle
    /\ SenderIdle /\ BroadcastIdle /\ UdpReceiverIdle /\ ClockIdle /\ ConcealIdle /\ MapperIdle /\ LimiterIdle
    /\ LinkIdle /\ RendererIdle /\ EngineIdle /\ RequestsIdle

SpecUdpReceiver == InitUdpReceiver /\ [][UdpReceiverNext]_vars

InitClock == JitterIdle /\ FecIdle /\ LossIdle /\ ReceiverIdle /\ LatencyIdle /\ SyncIdle /\ RtpIdle
    /\ SenderIdle /\ BroadcastIdle /\ UdpReceiverIdle /\ ClockInit /\ ConcealIdle /\ MapperIdle /\ LimiterIdle
    /\ LinkIdle /\ RendererIdle /\ EngineIdle /\ RequestsIdle

SpecClock == InitClock /\ [][ClockNext]_vars

InitConceal == JitterIdle /\ FecIdle /\ LossIdle /\ ReceiverIdle /\ LatencyIdle /\ SyncIdle /\ RtpIdle
    /\ SenderIdle /\ BroadcastIdle /\ UdpReceiverIdle /\ ClockIdle /\ ConcealInit /\ MapperIdle /\ LimiterIdle
    /\ LinkIdle /\ RendererIdle /\ EngineIdle /\ RequestsIdle

SpecConceal == InitConceal /\ [][ConcealNext]_vars

InitMapper == JitterIdle /\ FecIdle /\ LossIdle /\ ReceiverIdle /\ LatencyIdle /\ SyncIdle /\ RtpIdle
    /\ SenderIdle /\ BroadcastIdle /\ UdpReceiverIdle /\ ClockIdle /\ ConcealIdle /\ MapperInit /\ LimiterIdle
    /\ LinkIdle /\ RendererIdle /\ EngineIdle /\ RequestsIdle

SpecMapper == InitMapper /\ [][MapperNext]_vars

InitLimiter == JitterIdle /\ FecIdle /\ LossIdle /\ ReceiverIdle /\ LatencyIdle /\ SyncIdle /\ RtpIdle
    /\ SenderIdle /\ BroadcastIdle /\ UdpReceiverIdle /\ ClockIdle /\ ConcealIdle /\ MapperIdle /\ LimiterInit
    /\ LinkIdle /\ RendererIdle /\ EngineIdle /\ RequestsIdle

SpecLimiter == InitLimiter /\ [][LimiterNext]_vars

InitLink == JitterIdle /\ FecIdle /\ LossIdle /\ ReceiverIdle /\ LatencyIdle /\ SyncIdle /\ RtpIdle
    /\ LinkSenderInit /\ BroadcastIdle /\ UdpReceiverIdle /\ ClockIdle /\ ConcealIdle /\ MapperIdle /\ LimiterIdle
    /\ LinkIdle /\ RendererIdle /\ EngineIdle /\ RequestsIdle

SpecLink == InitLink /\ [][LinkNext]_vars

InitRenderer == JitterIdle /\ FecIdle /\ LossIdle /\ ReceiverIdle /\ LatencyIdle /\ SyncIdle /\ RtpIdle
    /\ SenderIdle /\ BroadcastIdle /\ UdpReceiverIdle /\ ClockIdle /\ ConcealIdle /\ MapperIdle /\ LimiterIdle
    /\ LinkIdle /\ RendererIdle /\ EngineIdle /\ RequestsIdle

SpecRenderer == InitRenderer /\ [][RendererNext]_vars

InitEngine == JitterIdle /\ FecIdle /\ LossIdle /\ ReceiverIdle /\ LatencyIdle /\ SyncIdle /\ RtpIdle
    /\ SenderIdle /\ BroadcastIdle /\ UdpReceiverIdle /\ ClockIdle /\ ConcealIdle /\ MapperIdle /\ LimiterIdle
    /\ LinkIdle /\ RendererIdle /\ EngineIdle /\ RequestsIdle

SpecEngine == InitEngine /\ [][EngineNext]_vars

InitRequests == JitterIdle /\ FecIdle /\ LossIdle /\ ReceiverIdle /\ LatencyIdle /\ SyncIdle /\ RtpIdle
    /\ SenderIdle /\ BroadcastIdle /\ UdpReceiverIdle /\ ClockIdle /\ ConcealIdle /\ MapperIdle /\ LimiterIdle
    /\ LinkIdle /\ RendererIdle /\ EngineIdle /\ RequestsIdle

SpecRequests == InitRequests /\ [][RequestsNext]_vars
----------------------------------------------------------------------------
(* Properties of the jitter buffer *)

PopDelivers == jret'.op = "pop" /\ jret'.res = "Ok"

\* seq lies 1 .. 32767 places behind last in the 16-bit sequence space
Behind(seq, last) == ((last - seq) % U16) \in 1..(HalfWindow - 1)

\* C1: a pop that delivers returns a buffered sequence number that is smaller
\* than every sequence number left in the buffer, so pops that follow one
\* another return strictly ascending sequence numbers whatever the arrival
\* order was, and it sets last_popped to the sequence number it returned.
C1_PopAscending ==
    [][PopDelivers =>
         /\ jret'.seq \in DOMAIN buffer
         /\ \A s \in DOMAIN buffer' : jret'.seq < s
         /\ (jret.op = "pop" /\ jret.res = "Ok" => jret'.seq > jret.seq)
         /\ last_popped' = jret'.seq]_vars

\* three packets were pushed and accepted before any pop, then popped: the
\* third pop has just returned 32768 after 0 and 1
C1_Witness ==
    /\ jret = [op |-> "pop", res |-> "Ok", seq |-> 32768]
    /\ last_popped = 32768
    /\ buffer = EmptyMap
    /\ packets_received = 3 /\ packets_dropped = 0 /\ packets_late = 0
    /\ prebuffered
    /\ ~underrun_seen

\* C2: pop order respects the 16-bit wraparound: no pop delivers a packet that
\* is behind (by the half-window rule) the packet delivered before it.
C2_PopModularOrder ==
    [][(PopDelivers /\ last_popped # NoSeq) =>
         WrappingSub(jret'.seq, last_popped) <= HalfWindow]_vars

\* C3: after at least one pop, a push of a sequence number behind last_popped
\* returns TooOld, adds one to packets_late and leaves the buffer (so its
\* length) and last_popped as they were.
C3_LatePushDropped ==
    [][(jret'.op = "push" /\ last_popped # NoSeq /\ Behind(jret'.seq, last_popped)) =>
         /\ jret'.res = "TooOld"
         /\ packets_late' = packets_late + 1
         /\ buffer' = buffer
         /\ last_popped' = last_popped]_vars

\* 0, 65534, 65535 buffered, two popped, then 32768 (never buffered, 32766
\* behind 65534) was pushed
C3_Witness ==
    /\ jret = [op |-> "push", res |-> "TooOld", seq |-> 32768]
    /\ last_popped = 65534
    /\ DOMAIN buffer = {65535}
    /\ packets_late = 1
    /\ packets_received = 4

PushAtCapacity == jret'.op = "push" /\ BufLen >= config.max_packets

\* C4 as stated: the buffer never holds more than max_packets packets, and
\* every push at capacity returns Full, adds one to packets_dropped and leaves
\* the buffer as it was.
C4_FullPushDropped ==
    /\ [](BufLen <= config.max_packets)
    /\ [][PushAtCapacity =>
            /\ jret'.res = "Full"
            /\ packets_dropped' = packets_dropped + 1
            /\ buffer' = buffer]_vars

\* C4 amended: the buffer never holds more than max_packets packets; a push at
\* capacity leaves the buffer as it was; it returns Full and adds one to
\* packets_dropped unless its sequence number is too old, and then it returns
\* TooOld and adds one to packets_late instead.
C4_FullPushDroppedUnlessLate ==
    /\ [](BufLen <= config.max_packets)
    /\ [][PushAtCapacity =>
            /\ buffer' = buffer
            /\ IF last_popped # NoSeq /\ Behind(jret'.seq, last_popped)
               THEN /\ jret'.res = "TooOld"
                    /\ packets_late' = packets_late + 1
                    /\ packets_dropped' = packets_dropped
               ELSE /\ jret'.res = "Full"
                    /\ packets_dropped' = packets_dropped + 1
                    /\ packets_late' = packets_late]_vars

\* a buffer of capacity 2 holding two packets has just refused a third
C4_Witness ==
    /\ jret.op = "push" /\ jret.res = "Full"
    /\ config.max_packets = 2
    /\ BufLen = 2
    /\ jret.seq \notin DOMAIN buffer
    /\ packets_dropped = 1

\* C5: pop delivers no packet before the buffer has first reached the ready()
\* threshold.
C5_NoPopBeforeReady ==
    (jret.op = "pop" /\ jret.res = "Ok") => prebuffered

\* C6: pop on an empty buffer returns Underrun and changes neither the buffer,
\* last_popped nor any counter; and once an underrun has happened, a pop that
\* follows an accepted push delivers a packet.
C6_UnderrunRecovers ==
    [][/\ (jret'.op = "pop" /\ DOMAIN buffer = {}) =>
            /\ jret'.res = "Underrun"
            /\ UNCHANGED <<buffer, last_popped, packets_received,
                           packets_dropped, packets_late>>
       /\ (underrun_seen /\ jret.op = "push" /\ jret.res = "Ok" /\ jret'.op = "pop") =>
            /\ jret'.res = "Ok"
            /\ jret'.seq \in DOMAIN buffer]_vars

\* an underrun, later an accepted push of sequence number 1, then a pop that
\* delivered it
C6_Witness ==
    /\ underrun_seen
    /\ jret = [op |-> "pop", res |-> "Ok", seq |-> 1]
    /\ packets_received = 1
    /\ packets_dropped = 0 /\ packets_late = 0
    /\ buffer = EmptyMap

\* C7: ready() returns true exactly when the number of buffered packets is at
\* least max(3, target_delay_ms / 20) with integer division.
C7_ReadyThreshold ==
    jret.op = "ready" =>
        (jret.res <=> (BufLen >= 3 /\ BufLen >= config.target_delay \div 20))

\* the default 50 ms target: ready() has just returned true with three packets
C7_Witness ==
    /\ jret.op = "ready" /\ jret.res = TRUE
    /\ config.target_delay = 50
    /\ BufLen = 3

----------------------------------------------------------------------------
(* Properties of XorFec *)

\* bit b of byte x
BitOf(x, b) == (x \div (2 ^ b)) % 2

\* fec is the byte-wise XOR of the packets of group, each padded with zeros to
\* the longest of them: bit by bit, a bit of fec is set exactly when an odd
\* number of packets have it set
IsParityOf(fec, group) ==
    /\ \A j \in 1..Len(group) : Len(group[j]) <= Len(fec)
    /\ \E j \in 1..Len(group) : Len(group[j]) = Len(fec)
    /\ \A i \in 1..Len(fec) :
         /\ fec[i] \in 0..255
         /\ \A b \in 0..7 :
              BitOf(fec[i], b) =
                Cardinality({j \in 1..Len(group) :
                               i <= Len(group[j]) /\ BitOf(group[j][i], b) = 1}) % 2

\* C8: encode returns no parity for the first k-1 packets of a group, which it
\* keeps; on the k-th it returns the byte-wise XOR of the k packets (shorter
\* ones zero-padded, as long as the longest) and leaves the next group empty.
C8_EncodeParity ==
    [][eret'.op = "encode" =>
         LET group == Append(current_group, eret'.packet) IN
         IF Len(group) < group_size
         THEN /\ ~eret'.res.some
              /\ current_group' = group
         ELSE /\ Len(group) = group_size
              /\ eret'.res.some
              /\ IsParityOf(eret'.res.fec, group)
              /\ current_group' = <<>>]_vars

\* the second group of three has just been closed by an empty packet, with a
\* parity of two bytes
C8_Witness ==
    /\ group_size = 3
    /\ eret.op = "encode" /\ eret.res.some
    /\ eret.packet = <<>>
    /\ eret.res.fec = <<255, 0>>
    /\ group_index = 2
    /\ current_group = <<>>

\* C9: with exactly one packet of the group missing, decode of the others and
\* the parity returns exactly the missing packet.
C9_DecodeRecovers ==
    (dret.op = "decode" /\ Cardinality(lost) = 1) =>
        /\ dret.ok
        /\ \A i \in lost : dret.bytes = sent[i]

\* C10: with two or more packets of the group missing, decode returns the
\* InsufficientData error and no bytes.
C10_DecodeInsufficient ==
    (dret.op = "decode" /\ Cardinality(lost) >= 2) =>
        /\ ~dret.ok
        /\ dret.bytes = <<>>

\* two packets of a group of three were lost and decode has refused
C10_Witness ==
    /\ dret.op = "decode" /\ ~dret.ok
    /\ group_size = 3
    /\ Cardinality(lost) = 2
    /\ Len(GenerateFec(sent)) = 2

----------------------------------------------------------------------------
(* Properties of FecReceiver *)

\* the sequence numbers that make up group g
SeqsOfGroup(g) == {q \in RcvSeqVals : q \div group_size = g}

\* C11: whenever exactly one data packet of a group is missing (k-1 of its k
\* sequence numbers were processed) and its parity has arrived, exactly one
\* recovery has been recorded for the group, whatever the order of arrival.
C11_OneRecoveryPerGroup ==
    \A g \in RcvGroupIds :
        (/\ g \in DOMAIN fec_cache
         /\ Cardinality(SeqsOfGroup(g)) = group_size
         /\ Cardinality(SeqsOfGroup(g) \cap got) = group_size - 1)
        => recoveries[g] = 1

\* C12: once a group has been recovered, its data and parity entries are gone
\* from the receiver's caches.
C12_RecoveredGroupDropped ==
    \A g \in RcvGroupIds :
        recoveries[g] >= 1 => (g \notin DOMAIN group_cache /\ g \notin DOMAIN fec_cache)

----------------------------------------------------------------------------
(* Properties of LossStatistics *)

\* every update was given the sequence number after the one before, modulo 2^16
Consecutive(h) == \A i \in 2..Len(h) : h[i] = (h[i - 1] + 1) % U16

\* how far h[i] is ahead of h[i-1], modulo 2^16
StepOf(h, i) == (h[i] - h[i - 1]) % U16

\* every update was given a sequence number ahead of the one before
InOrder(h) == \A i \in 2..Len(h) : StepOf(h, i) \in 1..(HalfWindow - 1)

RECURSIVE SkippedUpTo(_, _)
\* the sequence numbers skipped between the first i updates
SkippedUpTo(h, i) == IF i < 2 THEN 0 ELSE SkippedUpTo(h, i - 1) + StepOf(h, i) - 1

RECURSIVE LongestGapUpTo(_, _)
\* the longest run of sequence numbers skipped between two updates
LongestGapUpTo(h, i) ==
    IF i < 2 THEN 0 ELSE Max2(LongestGapUpTo(h, i - 1), StepOf(h, i) - 1)

\* C13: after updates with n consecutive sequence numbers (modulo 65536),
\* total_received = n, total_lost = 0, consecutive_losses = 0 and loss_rate = 0.
C13_NoLossInOrder ==
    Consecutive(seen) =>
        /\ stats.total_received = Len(seen)
        /\ stats.total_lost = 0
        /\ stats.consecutive_losses = 0
        /\ LossRateOf(stats).num = 0

\* four updates across the wrap
C13_Witness ==
    /\ seen = <<65534, 65535, 0, 1>>
    /\ stats.total_received = 4
    /\ stats.total_expected = 4
    /\ stats.last_sequence = 1

\* C14: for an in-order stream with gaps, total_lost is the number of skipped
\* sequence numbers and max_consecutive_losses is the length of the longest
\* run of consecutively missing sequence numbers.
C14_GapsCounted ==
    (InOrder(seen) /\ stats.total_recovered = 0) =>
        /\ stats.total_lost = SkippedUpTo(seen, Len(seen))
        /\ stats.max_consecutive_losses = LongestGapUpTo(seen, Len(seen))

\* C15: an update whose sequence number is not ahead of the last one seen (a
\* duplicate, or an older one by the half-window rule) adds nothing to
\* total_lost.
C15_OldNotLost ==
    [][(/\ Len(seen') = Len(seen) + 1
        /\ seen # <<>>
        /\ StepOf(seen', Len(seen')) \notin 1..HalfWindow)
       => stats'.total_lost = stats.total_lost]_vars

----------------------------------------------------------------------------
(* Properties of the latency compensator *)

\* C16: after any calls of add_speaker, update_speaker and remove_speaker,
\* max_latency is the largest total over the registered speakers (zero if
\* there is none), and delay_for_speaker returns max_latency minus the total
\* of a registered speaker and nothing for an unregistered one.
C16_MaxIsMaxTotal ==
    /\ max_latency = MaxTotal(speaker_latencies)
    /\ cret # <<>> =>
           cret[1].out =
               IF cret[1].speaker_id \in DOMAIN speaker_latencies
               THEN <<MaxTotal(speaker_latencies)
                        - Total(speaker_latencies[cret[1].speaker_id])>>
               ELSE <<>>

----------------------------------------------------------------------------
(* Properties of the multi-speaker scheduler *)

\* C17: a block is popped only if now >= its origin timestamp + the delay the
\* compensator gives for its speaker over the speakers registered at that
\* time, in whatever order the speakers were added.
C17_PopWaitsForDelay ==
    (/\ sret # <<>>
     /\ sret[1].op = "pop_ready"
     /\ sret[1].out # <<>>
     /\ sret[1].speaker \in DOMAIN speaker_latencies)
        => sret[1].now >= sret[1].out[1]
               + DelayForSpeakerOf(speaker_latencies, max_latency, sret[1].speaker)[1]

\* C18: the blocks successive pop_ready calls take from one speaker's queue
\* have non-decreasing origin timestamps, in whatever order they were pushed
\* (the caller's clock not running backwards between the calls).
C18_EmissionMonotone ==
    [][\A id \in SyncIds :
          (/\ sret' # <<>>
           /\ sret'[1].op = "pop_ready"
           /\ sret'[1].speaker = id
           /\ sret'[1].out # <<>>
           /\ last_out[id] # <<>>
           /\ sret'[1].now >= last_out[id][1].now)
              => sret'[1].out[1] >= last_out[id][1].timestamp]_vars

\* C19: once pop_ready at time now has returned nothing for a speaker, no
\* block with origin timestamp + delay <= now is left in that speaker's queue.
C19_DueSlotsEmitted ==
    (/\ sret # <<>>
     /\ sret[1].op = "pop_ready"
     /\ sret[1].out = <<>>
     /\ sret[1].speaker \in DOMAIN buffers)
        => LET sb == buffers[sret[1].speaker] IN
           \A i \in 1..Len(sb.buffer) : sb.buffer[i] + sb.delay > sret[1].now

----------------------------------------------------------------------------
(* Properties of the RTP wire format *)

\* the header fields fit their wire widths
FitsWire(h) == h.version <= 3 /\ h.csrc_count <= 15 /\ h.payload_type <= 127

\* C20: serialize gives a 12-byte header followed by the payload; for a packet
\* whose header fields fit their wire widths, deserialize of the serialized
\* packet returns the same header fields and the same payload; a buffer
\* shorter than 12 bytes is rejected.
C20_RoundTrip ==
    /\ wire # <<>> =>
           /\ Len(SerializeHeader(rtp_packet.header)) = 12
           /\ Len(wire[1]) = 12 + Len(rtp_packet.payload)
           /\ SubSeq(wire[1], 1, 12) = SerializeHeader(rtp_packet.header)
           /\ SubSeq(wire[1], 13, Len(wire[1])) = rtp_packet.payload
    /\ rret # <<>> =>
           /\ Len(rret[1].buf) < 12 => rret[1].out = <<>>
           /\ (FitsWire(rtp_packet.header) /\ rret[1].buf = wire[1]) =>
                  /\ rret[1].out # <<>>
                  /\ rret[1].out[1].header = rtp_packet.header
                  /\ rret[1].out[1].payload = rtp_packet.payload

\* a packet with the largest fitting version, CSRC count and payload type and
\* a two-byte payload has come back from the wire as it was sent
C20_Witness ==
    /\ rret # <<>>
    /\ rret[1].buf = wire[1]
    /\ rtp_packet.header.version = 3
    /\ rtp_packet.header.csrc_count = 15
    /\ rtp_packet.header.payload_type = 127
    /\ rtp_packet.header.marker
    /\ rtp_packet.header.padding
    /\ rtp_packet.header.sequence = 258
    /\ rtp_packet.header.timestamp = 16909060
    /\ rtp_packet.payload = <<255, 1>>
    /\ rret[1].out # <<>>
    /\ rret[1].out[1].header = rtp_packet.header
    /\ rret[1].out[1].payload = rtp_packet.payload
    /\ rret[1].out[1].clock = 1

----------------------------------------------------------------------------
(* Properties of the UDP sender *)

\* the data packets among the datagrams sent, in order
RECURSIVE DataOf(_)
DataOf(log) ==
    IF log = <<>> THEN <<>>
    ELSE IF Head(log).kind = "data" THEN <<Head(log)>> \o DataOf(Tail(log))
    ELSE DataOf(Tail(log))

\* a - b modulo 2^32 on the halves of two timestamps, as halves
Sub32(a, b) ==
    LET borrow == IF a.lo < b.lo THEN 1 ELSE 0 IN
    [hi |-> (a.hi - b.hi - borrow) % U16, lo |-> (a.lo - b.lo) % U16]

\* C21: a send_block that returns Ok has sent exactly one data packet, with
\* the session SSRC and the sequence number and timestamp the sender held,
\* and leaves the sequence number one further modulo 65,536 and the timestamp
\* further by the frame count of the block modulo 2^32; the sequence number
\* of a data packet sent is never behind that of the one before it.
C21_SendAdvances ==
    [][/\ LET log == DataOf(emitted') IN
          \A i \in 2..Len(log) :
              (log[i].sequence - log[i - 1].sequence) % U16 \in {0, 1}
       /\ (nret' # <<>> /\ nret'[1].op = "send_block" /\ nret'[1].ok /\ nret' # nret) =>
                 /\ Len(DataOf(nret'[1].out)) = 1
                 /\ nret'[1].out[1].kind = "data"
                 /\ nret'[1].out[1].ssrc = sender.ssrc
                 /\ nret'[1].out[1].sequence = sender.sequence
                 /\ nret'[1].out[1].timestamp = sender.timestamp
                 /\ sender'.ssrc = sender.ssrc
                 /\ sender'.sequence = (sender.sequence + 1) % 65536
                 /\ Sub32(sender'.timestamp, sender.timestamp)
                        = [hi |-> 0, lo |-> nret'[1].out[1].frames]]_vars

\* the sender has passed sequence number 65535 and the end of the timestamp
\* range: both have wrapped around
C21_Witness ==
    /\ nret # <<>>
    /\ nret[1].op = "send_block"
    /\ nret[1].ok
    /\ nret[1].out[1].sequence = 65535
    /\ nret[1].out[1].timestamp = [hi |-> 65535, lo |-> 65296]
    /\ nret[1].out[1].frames = 480
    /\ sender.sequence = 0
    /\ sender.timestamp = [hi |-> 0, lo |-> 240]

----------------------------------------------------------------------------
(* Properties of the multi-speaker sender *)

\* C23: when the send to one speaker fails during broadcast_block, the block
\* still goes to every other registered speaker in that call.
C23_BroadcastGoesOn ==
    (bret # <<>> /\ bret[1].op = "broadcast_block")
        => bret[1].sent = (1..Len(senders)) \ bret[1].failing

----------------------------------------------------------------------------
(* Properties of the UDP receiver *)

\* C24: a datagram that RTP deserialization rejects is dropped without an
\* error reaching the caller, and the loss statistics are not updated from it
\* (UdpRtpReceiver keeps no packets_dropped counter the count could be read
\* from).
C24_RejectedDroppedSilently ==
    [][(uret' # <<>> /\ uret'[1].io
        /\ DeserializePacket(uret'[1].datagram, 0) = <<>>
        /\ uret' # uret) =>
          /\ uret'[1].res # "Err(InvalidPacket)"
          /\ stats' = stats]_vars

----------------------------------------------------------------------------
(* Properties of the clocks *)

\* C25: sync of a PtpClock sets the offset to max(0, reference - local time),
\* and a now() after it reads at least the reference.
C25_PtpAtLeastReference ==
    /\ (clock.kind = "Ptp" /\ kret # <<>> /\ kret[1].op = "sync") =>
           /\ clock.last_sync = <<kret[1].reference>>
           /\ clock.offset = Max2(0, kret[1].reference - kret[1].local)
    /\ (clock.kind = "Ptp" /\ kret # <<>> /\ kret[1].op = "now" /\ clock.last_sync # <<>>) =>
           reading[1] >= clock.last_sync[1]

\* a PtpClock synced to 200 at host time 10 reads 210 one step later
C25_Witness ==
    /\ clock.kind = "Ptp"
    /\ clock.last_sync = <<200>>
    /\ clock.offset = 190
    /\ host = 20
    /\ kret # <<>>
    /\ kret[1].op = "now"
    /\ reading = <<210>>

\* C26: successive now() readings of a clock never decrease, whatever sync
\* calls come between them.
C26_Monotonic ==
    [][(reading # <<>> /\ reading' # <<>>) => reading'[1] >= reading[1]]_vars

\* C27: a sync of an NtpClock never takes its reading further from the
\* reference than it was.
C27_NtpConverges ==
    [][(clock.kind = "Ntp" /\ kret' # <<>> /\ kret'[1].op = "sync" /\ clock' # clock) =>
          Abs(NowOf(clock', host) - kret'[1].reference)
              <= Abs(NowOf(clock, host) - kret'[1].reference)]_vars

----------------------------------------------------------------------------
(* Properties of loss concealment *)

\* C28: conceal follows the strategy: Silence gives zeros in the shape asked
\* for; Repeat gives the last block given to update, or silence in the shape
\* asked for if there was none; Interpolate gives the last block with sample
\* i of each channel of n samples weighted by (n - i) / n, a straight ramp
\* towards zero; the stored last block is left as it was.
ConcealedAsAsked ==
    conceal_out # <<>> =>
        LET req == conceal_out[1].req
            out == conceal_out[1].block
            silent == /\ out.sample_rate = req.sample_rate
                      /\ Len(out.channels) = req.num_channels
                      /\ \A c \in 1..Len(out.channels) :
                             /\ Len(out.channels[c]) = req.frames
                             /\ \A i \in 1..req.frames : out.channels[c][i] = 0
        IN  IF strategy = "Silence" \/ last_block = <<>> THEN silent
            ELSE IF strategy = "Repeat" THEN out = last_block[1]
            ELSE /\ out.sample_rate = last_block[1].sample_rate
                 /\ Len(out.channels) = Len(last_block[1].channels)
                 /\ \A c \in 1..Len(out.channels) :
                        LET n == Len(last_block[1].channels[c]) IN
                        /\ Len(out.channels[c]) = n
                        /\ \A i \in 1..n :
                               out.channels[c][i] * n
                                   = last_block[1].channels[c][i] * (n - (i - 1))

C28_ConcealFollowsStrategy ==
    /\ []ConcealedAsAsked
    /\ [][(conceal_out' # <<>> /\ conceal_out' # conceal_out)
              => last_block' = last_block]_vars

\* an Interpolate concealer has faded a block of two channels of two samples
C28_Witness ==
    /\ strategy = "Interpolate"
    /\ last_block = <<[sample_rate |-> 44100, channels |-> <<<<6, -12>>, <<-12, 6>>>>]>>
    /\ conceal_out # <<>>
    /\ conceal_out[1].block.channels = <<<<6, -6>>, <<-12, 3>>>>

----------------------------------------------------------------------------
(* Properties of channel-based mapping *)

\* the source channels that reach the mapper: those with a label and audio
Supplied(in) ==
    1..(IF Len(in.labels) < Len(in.audio.channels) THEN Len(in.labels)
        ELSE Len(in.audio.channels))

\* a slot of the output holds silence
IsSilent(channel, in) ==
    Len(channel) = FrameLen(in.audio) /\ \A i \in 1..Len(channel) : channel[i] = 0

\* C29: the output has one channel per layout speaker; every supplied source
\* channel whose role is that of a layout speaker is found unchanged in that
\* speaker's slot, and a slot whose role no supplied source channel has is
\* silent.
C29_MappedByRole ==
    map_out # <<>> =>
        LET out == map_out[1].channels IN
        /\ Len(out) = Len(map_in.roles)
        /\ \A i \in Supplied(map_in) : \A j \in 1..Len(out) :
               map_in.roles[j] = map_in.labels[i] => out[j] = map_in.audio.channels[i]
        /\ \A j \in 1..Len(out) :
               (\A i \in Supplied(map_in) : map_in.labels[i] # map_in.roles[j])
                   => IsSilent(out[j], map_in)

----------------------------------------------------------------------------
(* Properties of the limiter *)

\* C30: every sample the limiter emits has a magnitude of at most 1.01 times
\* the threshold, whatever the block and whatever gain earlier blocks left.
C30_LimiterBound ==
    lim_out # <<>> =>
        \A c \in 1..Len(lim_out[1].channels) :
            \A i \in 1..Len(lim_out[1].channels[c]) :
                Abs(lim_out[1].channels[c][i]) * 100 <= limiter.threshold * GainOne * 101

\* a second block with a peak above the threshold came out within the bound,
\* limited with a gain an earlier block had left below one
C30_Witness ==
    /\ lim_calls = 2
    /\ limiter.threshold = 70
    /\ limiter.limiter_gain < GainOne
    /\ lim_out # <<>>
    /\ lim_out[1].input.channels = <<<<50, -200>>, <<99>>>>
    /\ Abs(lim_out[1].channels[1][2]) > 0
    /\ Abs(lim_out[1].channels[1][2]) * 100 <= 70 * GainOne * 101

----------------------------------------------------------------------------
(* Further properties of the jitter buffer, the loss statistics, the FEC    *)
(* receiver and the UDP sender *)

\* C36: once the packet with sequence number s has been popped, a push of
\* sequence number s that follows is not accepted into the buffer.
C36_NoSecondDelivery ==
    [][(jret'.op = "push" /\ packets_received' = packets_received + 1
        /\ last_popped # NoSeq /\ jret'.seq = last_popped)
          => (jret'.res # "Ok" /\ buffer' = buffer)]_vars

\* C37: whatever sequence numbers update is called with, total_expected is
\* total_received plus total_lost.
C37_ExpectedIsReceivedPlusLost ==
    stats.total_expected = stats.total_received + stats.total_lost

\* a duplicate and a packet out of order have been counted
C37_Witness ==
    /\ Len(seen) >= 3
    /\ \E i \in 1..(Len(seen) - 1) : seen[i + 1] = seen[i]
    /\ \E i \in 1..(Len(seen) - 1) : seen[i + 1] < seen[i]
    /\ stats.total_lost > 0
    /\ stats.total_received = Len(seen)

\* C38: whatever data and parity packets a FecReceiver is given,
\* total_recovered is at most total_lost.
C38_RecoveredAtMostLost ==
    stats.total_recovered <= stats.total_lost

\* C39: two successive data packets of one sender never carry the same
\* sequence number, also when a send_block call between them returned an
\* error.
C39_SequenceNeverReused ==
    [][LET log == DataOf(emitted') IN
       \A i \in 2..Len(log) : log[i].sequence # log[i - 1].sequence]_vars

----------------------------------------------------------------------------
(* Properties of a sender and a receiver over a network without loss *)

\* C40: with FEC enabled on the sender and every datagram delivered in order,
\* the loss statistics of the receiver report no lost packet.
C40_NoLossReported ==
    sender.fec # <<>> => stats.total_lost = 0
----------------------------------------------------------------------------
(* Properties of the renderer *)

\* C31: every render call runs its stages in one order: dynamic range
\* compression when it is enabled, then loudness normalization when it is
\* enabled, then the limiter.  The limiter runs in every call, exactly once,
\* and neither compression nor normalization runs after it.
C31_LimiterLast ==
    render_out # <<>> =>
        LET stages == render_out[1].stages IN
        /\ Cardinality({i \in DOMAIN stages : stages[i] = "limiter"}) = 1
        /\ \A i, j \in DOMAIN stages :
               i < j =>
                 /\ (stages[i] = "normalize" => stages[j] # "drc")
                 /\ (stages[i] = "limiter" => stages[j] \notin {"drc", "normalize"})
                 /\ stages[i] # stages[j]

\* a call has run with compression and a loudness target set: compression,
\* normalization and the limiter ran, in that order
C31_Witness ==
    /\ render_out # <<>>
    /\ render_out[1].renderer.drc
    /\ render_out[1].renderer.loudness_normalizer
    /\ Len(render_out[1].stages) >= 3
    /\ SubSeq(render_out[1].stages, 1, 3) = <<"drc", "normalize", "limiter">>
----------------------------------------------------------------------------
(* Properties of the REST API *)

\* C32: POST /layout with the preset stereo, 5.1 or 7.1 answers 200, makes
\* that preset the active layout and the next GET /layout returns it; another
\* preset answers 400, a request without preset 501, and a request that is
\* rejected leaves the layout as it was.
C32_PresetsAccepted ==
    [][aret'.req = "set_layout" =>
         LET preset == aret'.arg IN
         /\ preset \in {<<"stereo">>, <<"5.1">>, <<"7.1">>} =>
              /\ aret'.status = 200
              /\ engine'.layout # <<>>
              /\ engine'.layout[1].name = preset[1]
              /\ GetLayoutOf(engine') = [status |-> 200, body |-> engine'.layout]
         /\ preset # <<>> /\ preset \notin {<<"stereo">>, <<"5.1">>, <<"7.1">>} =>
              aret'.status = 400
         /\ preset = <<>> => aret'.status = 501
         /\ aret'.status # 200 => engine'.layout = engine.layout]_vars

\* C33: the transport starts Stopped; play, pause and stop answer 200 from
\* any state and leave it Playing, Paused and Stopped; GET /transport/status
\* reports the state as the most recent command left it; a transport command
\* changes neither the speakers nor the layout nor the statistics.
C33_TransportCommands ==
    /\ engine.transport_state = "Stopped"
    /\ [][(aret'.req \in TransportCommands =>
               (/\ aret'.status = 200
                /\ (aret'.req = "play" => engine'.transport_state = "Playing")
                /\ (aret'.req = "pause" => engine'.transport_state = "Paused")
                /\ (aret'.req = "stop" => engine'.transport_state = "Stopped")
                /\ engine'.speakers = engine.speakers
                /\ engine'.layout = engine.layout
                /\ engine'.speaker_stats = engine.speaker_stats))
           /\ (aret'.req = "transport_status" =>
               (/\ aret'.status = 200
                /\ aret'.body = <<engine.transport_state>>
                /\ engine' = engine))
           /\ (engine'.transport_state # engine.transport_state =>
               aret'.req \in TransportCommands)]_vars

\* with a speaker registered and a layout active the transport was paused,
\* and GET /transport/status has reported it
C33_Witness ==
    /\ aret.req = "transport_status"
    /\ aret.body = <<"Paused">>
    /\ engine.transport_state = "Paused"
    /\ engine.speakers # {}
    /\ engine.layout # <<>>

\* C34: DELETE /speakers/{id} answers 204 for a registered id and 404,
\* changing nothing, for an unknown one; after a 204 every read of that
\* speaker, GET /speakers/{id} and GET /speakers/{id}/stats, answers 404.
C34_RemovedSpeakerGone ==
    [][aret'.req = "remove_speaker" =>
         LET id == aret'.arg[1] IN
         /\ aret'.status = IF id \in engine.speakers THEN 204 ELSE 404
         /\ aret'.status = 404 => engine' = engine
         /\ aret'.status = 204 =>
              /\ GetSpeakerOf(engine', id).status = 404
              /\ SpeakerStatsOf(engine', id).status = 404]_vars
----------------------------------------------------------------------------
(* Properties of the handlers running concurrently *)

\* C35: the state is replaced atomically.  A GET /layout racing a
\* POST /layout answers with the whole previous or the whole new layout,
\* never a mix of the two; after concurrent transport commands the transport
\* state is the one of the command that took the engine lock last.
C35_AtomicReplacement ==
    /\ \A i \in Handlers :
           reqs[i].kind = "get_layout" /\ reqs[i].pc = "done" =>
             \/ reqs[i].status = 404 /\ reqs[i].body = <<>>
             \/ reqs[i].status = 200
                  /\ reqs[i].body \in {<<StereoLayout>>, <<Surround51Layout>>}
    /\ (\A i \in Handlers :
            ~(reqs[i].kind \in TransportCommands /\ reqs[i].pc = "locked")) =>
         shared.transport_state =
            IF last_transport = <<>> THEN "Stopped"
            ELSE IF last_transport[1] = "play" THEN "Playing"
            ELSE IF last_transport[1] = "pause" THEN "Paused"
            ELSE "Stopped"

\* a GET /layout has answered with the whole 5.1 layout, a POST /layout that
\* raced it is half way through replacing it with stereo, and a pause that
\* took the lock after a play has run
C35_Witness ==
    \E i, j, k \in Handlers :
        /\ reqs[i].kind = "get_layout" /\ reqs[i].pc = "done"
        /\ reqs[i].body = <<Surround51Layout>>
        /\ reqs[j].kind = "set_layout" /\ reqs[j].arg = <<"stereo">>
        /\ reqs[j].pc = "half"
        /\ shared.layout # <<>> /\ shared.layout[1] \notin {StereoLayout, Surround51Layout}
        /\ reqs[k].kind = "pause" /\ reqs[k].pc = "done"
        /\ last_transport = <<"pause">>
        /\ shared.transport_state = "Paused"
============================================================================
